---- MODULE Spec2Model ----
(***************************************************************************)
(* Verification model of llm-compressor's sequential GPTQ pipeline:        *)
(*   - graph partitioning and replay (partitioned_model.py,                *)
(*     graph_resuming.py),                                                 *)
(*   - Hessian accumulation (gptq_quantize.py, gptq_wrapper.py),           *)
(*   - the wrapper lifecycle driven by LayerCompressor                     *)
(*     (layer_compressor.py),                                              *)
(*   - the hooks of SequentialLayerCompressor (layer_compressor.py),       *)
(*   - one quantizer call: quantize_weight and GPTQWrapper.compress        *)
(*     (gptq_quantize.py, gptq_wrapper.py, base.py).                       *)
(* Each part has its own specification; the variables of the other parts   *)
(* stay at their initial value.                                            *)
(***************************************************************************)
EXTENDS Integers, Sequences, FiniteSets, TLC

\* ------------------------------------------------------------------ bounds
\* Number of nodes of the traced graph (the last one is the output node).
MaxNodes == 4
\* Number of calibration samples a dataloader may hold.
MaxSamples == 2

VARIABLES
    graph,                \* torch.fx graph: node -> [op, all_input_nodes, users]
    variant,              \* which file's topological_partition is running
    pc,                   \* position of the pipeline
    err,                  \* exception that ended the run ("none" if none)
    partitions,           \* List[List[Node]] of topological_partition
    remaining_indegrees,  \* node -> remaining indegree
    partition_index,      \* the global partition counter
    queue,                \* deque of ready nodes
    dequeued,             \* history: <<node, partition_index>> per popleft
    subgraphs,            \* list of subgraph records built by partition_graph
    mode,                 \* "none" | "forward" | "forward_data"
    num_batches,          \* len(dataloader)
    subgraph_index,       \* loop variable of the executor
    batch_index,          \* loop variable of forward_data / sample of forward
    batch_intermediates,  \* per sample: the intermediates cache (name -> value)
    batch_outputs,        \* per sample: the value the executor returned
    executed,             \* history: <<subgraph_index, batch_index>> per run
    deleted,              \* history: <<batch_index, subgraph_index, name>>
    dataloader,           \* the caller's sample mappings; shared with the cache?
    H,                    \* GPTQWrapper.H as an exact rational matrix [num, den]
    nsamples,             \* GPTQWrapper.nsamples
    observed,             \* history: sum of x * x^T over every position seen
    batch_sizes,          \* history: the size of every batch added so far
    modules,              \* LayerCompressor.modules: "empty", "dict" or "None"
    wrappers,             \* per compressible module: its wrapper's fields
    handles,              \* names whose add_batch forward hook is registered
    lc_pc,                \* "idle", "compress" (inside compress()) or "error"
    lc_err,               \* exception that ended the LayerCompressor run
    to_compress,          \* wrappers Module.apply has still to visit
    lc_calls,             \* number of LayerCompressor calls made
    early_stop_handle,    \* LayerCompressor.early_stop_handle: a hook id, 0 for None
    early_stop_hooks,     \* ids of the early-stop pre-hooks registered on the layer
    lifecycle,            \* history: per module, what acted on its wrapper
    true_sequential,      \* SequentialLayerCompressor.true_sequential
    HOOKS_DISABLED,       \* HooksMixin.HOOKS_DISABLED (class attribute)
    hooked,               \* the hooks of register_hooks are on the model
    layer_index,          \* SequentialLayerCompressor._layer_index
    seq_pc,               \* position inside a forward call of the layer
    weight_version,       \* per module: number of compress_fn runs on its weight
    module_outputs,       \* outputs of the modules in the running layer forward
    output,               \* `output` argument of the running layer_post_forward
    compressed_output,    \* `compressed_output` of the last layer re-run
    returned,             \* history: what each layer call handed on
    events,               \* history: compress_fn and module forward events
    forward_calls,        \* number of layer forward calls started
    contexts,             \* disable_hooks() contexts entered and not left
    call,                 \* the quantizer call: entry point and its arguments
    q_pc,                 \* position inside the quantizer call
    q_err,                \* exception that ended the quantizer call
    qH,                   \* H of the quantizer call, exact: [num, den]
    Hinv,                 \* entries of Hinv that can be non-zero
    W,                    \* working weight: per position, its column
    dead,                 \* positions whose Hessian diagonal was zero
    perm,                 \* permutation of _apply_activation_ordering
    g_idx,                \* position -> group index
    scale,                \* scale and zero_point: per group, their provenance
    layer,                \* the module's parameters
    result,               \* what quantize_weight returned
    blocks,               \* history: <<i1, i2>> of every block of the loop
    W_nz_mask,            \* position -> its entry was not zero, or None
    modifier,             \* GPTQModifier: its fields and its place in on_initialize
    quantized_module      \* parameters of the model's Linear module

graphVars == <<graph, variant, pc, err, partitions, remaining_indegrees,
               partition_index, queue, dequeued, subgraphs, mode, num_batches,
               subgraph_index, batch_index, batch_intermediates, batch_outputs,
               executed, deleted, dataloader>>

hessianVars == <<H, nsamples, observed, batch_sizes>>

layerVars == <<modules, wrappers, handles, lc_pc, lc_err, to_compress, lc_calls,
               lifecycle, early_stop_handle, early_stop_hooks>>

sequentialVars == <<true_sequential, HOOKS_DISABLED, hooked, layer_index, seq_pc,
                    weight_version, module_outputs, output, compressed_output,
                    returned, events, forward_calls, contexts>>

quantizerVars == <<call, q_pc, q_err, qH, Hinv, W, dead, perm, g_idx, scale,
                   layer, result, blocks, W_nz_mask>>

modifierVars == <<modifier, quantized_module>>

vars == <<graphVars, hessianVars, layerVars, sequentialVars, quantizerVars,
         modifierVars>>

nonGraphVars == <<hessianVars, layerVars, sequentialVars, quantizerVars,
                 modifierVars>>

nonHessianVars == <<graphVars, layerVars, sequentialVars, quantizerVars,
                   modifierVars>>

nonLayerVars == <<graphVars, hessianVars, sequentialVars, quantizerVars,
                 modifierVars>>

nonSequentialVars == <<graphVars, hessianVars, layerVars, quantizerVars,
                      modifierVars>>

nonQuantizerVars == <<graphVars, hessianVars, layerVars, sequentialVars,
                     modifierVars>>

nonModifierVars == <<graphVars, hessianVars, layerVars, sequentialVars,
                    quantizerVars>>

\* ----------------------------------------------------------------- helpers
SeqToSet(s) == {s[i] : i \in DOMAIN s}

MinOf(S) == CHOOSE x \in S : \A y \in S : x <= y

MaxOf(S) == CHOOSE x \in S : \A y \in S : x >= y

RECURSIVE SortedSeq(_)
SortedSeq(S) ==
    IF S = {} THEN <<>>
    ELSE LET m == MinOf(S) IN <<m>> \o SortedSeq(S \ {m})

\* the pairs of S, each once, in a fixed order
RECURSIVE SortedPairs(_)
SortedPairs(S) ==
    IF S = {} THEN <<>>
    ELSE LET m == CHOOSE x \in S : \A y \in S :
                      x[1] < y[1] \/ (x[1] = y[1] /\ x[2] <= y[2])
         IN  <<m>> \o SortedPairs(S \ {m})

\* position of x in sequence s (0 when absent)
IndexOf(s, x) ==
    IF \E i \in DOMAIN s : s[i] = x
    THEN MinOf({i \in DOMAIN s : s[i] = x})
    ELSE 0

\* ------------------------------------------------------------------- graph
Nodes == 1..MaxNodes

\* torch.fx appends the single output node last.
OutputNode == MaxNodes

\* The nodes the tracer can append after the nodes g: placeholders come first
\* (they are created before the body is traced), get_attr nodes take no
\* input, a call takes earlier nodes as arguments.  A call_module node stands
\* for a call of a module whose type is in `targets`; calls of other modules
\* are treated by the partitioner exactly as call_function nodes are.
NodeChoices(g) ==
    LET n == Len(g) + 1
        earlier == 1..(n - 1)
        args == (SUBSET earlier) \ {{}}
    IN  IF n = MaxNodes
        THEN {[op |-> "output", all_input_nodes |-> S] : S \in args}
        ELSE (IF \A i \in earlier : g[i].op = "placeholder"
              THEN {[op |-> "placeholder", all_input_nodes |-> {}]} ELSE {})
             \cup (IF n > 1
                   THEN {[op |-> "get_attr", all_input_nodes |-> {}]} ELSE {})
             \cup {[op |-> o, all_input_nodes |-> S] :
                      o \in {"call_function", "call_module"}, S \in args}

RECURSIVE GraphsOfSize(_)
GraphsOfSize(n) ==
    IF n = 0 THEN {<<>>}
    ELSE UNION {{Append(g, nd) : nd \in NodeChoices(g)} : g \in GraphsOfSize(n - 1)}

\* node.users is the inverse of all_input_nodes, maintained by torch.fx.
WithUsers(g) ==
    [n \in Nodes |->
        [op |-> g[n].op,
         all_input_nodes |-> g[n].all_input_nodes,
         users |-> {u \in Nodes : n \in g[u].all_input_nodes}]]

get_target_nodes == {n \in Nodes : graph[n].op = "call_module"}

\* check_assumption(graph) for a graph or a subgraph g.  node.users is a dict
\* and all_input_nodes lists the keys of a dict, so the duplicate-edge test of
\* the source never fails; the two symmetry tests decide.  A node that is not
\* a node of g has none of g's nodes among its inputs or users.
check_assumption(g) ==
    \A n \in DOMAIN g :
        /\ \A user \in g[n].users :
              user \in DOMAIN g /\ n \in g[user].all_input_nodes
        /\ \A input_node \in g[n].all_input_nodes :
              input_node \in DOMAIN g /\ n \in g[input_node].users

Variants == {"partitioned_model", "graph_resuming"}

\* ------------------------------------------------- topological_partition
\* in-degree counts that include get_attr inputs in both files
CountedInputsAll(n) == graph[n].all_input_nodes

CountedInputs(n) ==
    IF variant = "partitioned_model"
    THEN {i \in graph[n].all_input_nodes : graph[i].op # "get_attr"}
    ELSE graph[n].all_input_nodes

InitialIndegrees == [n \in Nodes |-> Cardinality(CountedInputs(n))]

InitialQueue ==
    SortedSeq({n \in Nodes :
                  /\ InitialIndegrees[n] = 0
                  /\ (variant = "partitioned_model" => graph[n].op # "get_attr")})

TopologicalPartitionBegin ==
    /\ UNCHANGED nonGraphVars
    /\ pc = "init"
    /\ IF check_assumption(graph)
       THEN /\ pc' = "traverse"
            /\ partitions' = << <<>> >>
            /\ remaining_indegrees' = InitialIndegrees
            /\ partition_index' = 0
            /\ queue' = InitialQueue
            /\ err' = err
       ELSE /\ pc' = "error"
            /\ err' = "AssertionError"
            /\ UNCHANGED <<partitions, remaining_indegrees, partition_index, queue>>
    /\ UNCHANGED <<graph, variant, dequeued, subgraphs, mode, num_batches,
                   subgraph_index, batch_index, batch_intermediates,
                   batch_outputs, executed, deleted,
                   dataloader>>

\* every call, target or not, opens a new partition
OpensPartitionAnyCall(node) == graph[node].op \in {"call_module", "call_function"}

\* `if node in target_nodes`: the node opens a new partition
OpensPartition(node) == node \in get_target_nodes

\* a target is appended to the partition before the one it opened
AppendBeforeOpen(parts, index, node) ==
    [parts EXCEPT ![IF node \in get_target_nodes THEN index ELSE index + 1] =
                      Append(@, node)]

\* partitions[partition_index].append(node); indices are 0-based in the source
AppendToPartition(parts, index, node) ==
    [parts EXCEPT ![index + 1] = Append(@, node)]

\* one iteration of `while len(queue) > 0`
Dequeue ==
    /\ UNCHANGED nonGraphVars
    /\ pc = "traverse"
    /\ queue # <<>>
    /\ LET node == Head(queue)
           index == IF OpensPartition(node) THEN partition_index + 1
                    ELSE partition_index
           opened == IF OpensPartition(node) THEN Append(partitions, <<>>)
                     ELSE partitions
           decremented == [u \in Nodes |->
                              IF u \in graph[node].users
                              THEN remaining_indegrees[u] - 1
                              ELSE remaining_indegrees[u]]
           ready == {u \in graph[node].users : decremented[u] = 0}
       IN  /\ partition_index' = index
           /\ partitions' = AppendToPartition(opened, index, node)
           /\ remaining_indegrees' = decremented
           /\ queue' = Tail(queue) \o SortedSeq(ready)
           /\ dequeued' = Append(dequeued, <<node, index>>)
    /\ UNCHANGED <<graph, variant, pc, err, subgraphs, mode, num_batches,
                   subgraph_index, batch_index, batch_intermediates,
                   batch_outputs, executed, deleted,
                   dataloader>>

Placed(parts) == UNION {SeqToSet(parts[k]) : k \in DOMAIN parts}

\* a second loop that passes over the get_attr nodes without users
PendingGetAttrsWithUsers ==
    IF variant = "partitioned_model"
    THEN {n \in Nodes : /\ graph[n].op = "get_attr"
                        /\ graph[n].users # {}
                        /\ n \notin Placed(partitions)}
    ELSE {}

\* get_attr nodes the second loop of partitioned_model.py has still to place
PendingGetAttrs ==
    IF variant = "partitioned_model"
    THEN {n \in Nodes : graph[n].op = "get_attr" /\ n \notin Placed(partitions)}
    ELSE {}

\* 0-based index of the first partition holding `user`; the empty set when no
\* partition holds it (the inner loop then appends nothing)
UserPartition(user) ==
    {MinOf({k \in DOMAIN partitions : user \in SeqToSet(partitions[k])}) - 1 :
        x \in {user} \cap Placed(partitions)}

\* the get_attr node joins its last user's partition
AttachIndexLatest(user_partitions) == MaxOf(user_partitions)

\* partition_index = min(user_partitions)
AttachIndex(user_partitions) == MinOf(user_partitions)

\* one iteration of `for node in graph.graph.nodes: if node.op == "get_attr"`
ReattachGetAttr ==
    /\ UNCHANGED nonGraphVars
    /\ pc = "traverse"
    /\ queue = <<>>
    /\ PendingGetAttrs # {}
    /\ LET node == MinOf(PendingGetAttrs)
           user_partitions == UNION {UserPartition(u) : u \in graph[node].users}
       IN  IF user_partitions = {}
           THEN \* min() of an empty list
                /\ pc' = "error"
                /\ err' = "ValueError"
                /\ UNCHANGED <<partitions, partition_index>>
           ELSE /\ partition_index' = AttachIndex(user_partitions)
                /\ partitions' = [partitions EXCEPT
                                     ![AttachIndex(user_partitions) + 1] = <<node>> \o @]
                /\ UNCHANGED <<pc, err>>
    /\ UNCHANGED <<graph, variant, remaining_indegrees, queue, dequeued,
                   subgraphs, mode, num_batches, subgraph_index, batch_index,
                   batch_intermediates, batch_outputs, executed, deleted,
                   dataloader>>

\* assert set().union(*partitions) == set(graph.graph.nodes); return partitions
TopologicalPartitionReturn ==
    /\ UNCHANGED nonGraphVars
    /\ pc = "traverse"
    /\ queue = <<>>
    /\ PendingGetAttrs = {}
    /\ IF Placed(partitions) = Nodes
       THEN pc' = "partitioned" /\ err' = err
       ELSE pc' = "error" /\ err' = "AssertionError"
    /\ UNCHANGED <<graph, variant, partitions, remaining_indegrees,
                   partition_index, queue, dequeued, subgraphs, mode,
                   num_batches, subgraph_index, batch_index,
                   batch_intermediates, batch_outputs, executed, deleted,
                   dataloader>>

\* ---------------------------------------------------------- partition_graph
\* inputs not in this subgraph, deduplicated (the trailing `and input_node.op`
\* of partitioned_model.py is always truthy)
new_input_nodes(partition_nodes) ==
    {input_node \in Nodes :
        /\ input_node \notin SeqToSet(partition_nodes)
        /\ \E node \in SeqToSet(partition_nodes) :
              input_node \in graph[node].all_input_nodes}

\* node_copy(node, lambda n: node_map[n]) finds every argument in node_map:
\* it is a new placeholder or a node of the partition copied before
NodeCopyDefined(partition_nodes) ==
    \A i \in DOMAIN partition_nodes :
        \A input_node \in graph[partition_nodes[i]].all_input_nodes :
            \/ input_node \in new_input_nodes(partition_nodes)
            \/ \E j \in 1..(i - 1) : partition_nodes[j] = input_node

\* an output dictionary that exposes every node of the partition
output_dict_every_node(partition_nodes) == SeqToSet(partition_nodes)

\* the synthesized output dictionary: nodes with a user outside the partition
output_dict(partition_nodes) ==
    {node \in SeqToSet(partition_nodes) :
        \E user \in graph[node].users : user \notin SeqToSet(partition_nodes)}

\* The node subgraph.output(output_dict) appends to a subgraph that holds no
\* copy of the original output node.
SynthesizedOutput == 0

\* the nodes of the subgraph: new placeholders, copies, synthesized output
SubgraphNodes(partition_nodes) ==
    new_input_nodes(partition_nodes) \cup SeqToSet(partition_nodes)
        \cup (IF \E node \in SeqToSet(partition_nodes) : graph[node].op = "output"
              THEN {} ELSE {SynthesizedOutput})

\* the arguments of a subgraph node: none for a placeholder, the mapped
\* arguments of the original for a copy, the values of output_dict for the
\* synthesized output
SubgraphInputs(partition_nodes, n) ==
    IF n \in new_input_nodes(partition_nodes) THEN {}
    ELSE IF n = SynthesizedOutput THEN output_dict(partition_nodes)
    ELSE graph[n].all_input_nodes

\* users copied from the original nodes, users outside the subgraph included
SubgraphUsersCopied(partition_nodes, n) ==
    IF n \in Nodes THEN graph[n].users ELSE {}

\* torch.fx records a user on every argument of a node it creates
SubgraphUsers(partition_nodes, n) ==
    {u \in SubgraphNodes(partition_nodes) : n \in SubgraphInputs(partition_nodes, u)}

\* the Graph built for one partition
SubgraphGraph(partition_nodes) ==
    [n \in SubgraphNodes(partition_nodes) |->
        [op |-> IF n \in new_input_nodes(partition_nodes) THEN "placeholder"
                ELSE IF n = SynthesizedOutput THEN "output"
                ELSE graph[n].op,
         all_input_nodes |-> SubgraphInputs(partition_nodes, n),
         users |-> SubgraphUsers(partition_nodes, n)]]

\* the subgraph record appended for one partition (consumed_names still empty)
BuildSubgraph(partition_nodes) ==
    LET has_output == \E node \in SeqToSet(partition_nodes) : graph[node].op = "output"
    IN  [graph |-> SubgraphGraph(partition_nodes),
         nodes |-> partition_nodes,
         input_names |-> new_input_nodes(partition_nodes)
                         \cup {node \in SeqToSet(partition_nodes) :
                                  graph[node].op = "placeholder"},
         has_output |-> has_output,
         output_names |-> IF has_output THEN {} ELSE output_dict(partition_nodes),
         consumed_names |-> {}]

\* the first subgraph that takes input_name, not the last
ConsumingSubgraphFirst(sgs, input_name) ==
    MinOf({k \in DOMAIN sgs : input_name \in sgs[k].input_names})

\* `for subgraph in reversed(subgraphs): if input_name in input_names: break`
\* (1-based position in the list of subgraphs)
ConsumingSubgraph(sgs, input_name) ==
    MaxOf({k \in DOMAIN sgs : input_name \in sgs[k].input_names})

\* every subgraph that takes a name is recorded as consuming it
WithConsumedNamesByEveryUser(sgs) ==
    [k \in DOMAIN sgs |-> [sgs[k] EXCEPT !.consumed_names = sgs[k].input_names]]

\* a subgraph also consumes the names it outputs
WithConsumedNamesAndOutputs(sgs) ==
    [k \in DOMAIN sgs |->
        [sgs[k] EXCEPT !.consumed_names = sgs[k].input_names \cup sgs[k].output_names]]

WithConsumedNames(sgs) ==
    LET all_input_names == UNION {sgs[k].input_names : k \in DOMAIN sgs}
    IN  [k \in DOMAIN sgs |->
            [sgs[k] EXCEPT !.consumed_names =
                {input_name \in all_input_names :
                    ConsumingSubgraph(sgs, input_name) = k}]]

\* names of input_names that no subgraph outputs and no sample supplies
UnresolvedByProducers(sgs) ==
    {input_name \in UNION {sgs[k].input_names : k \in DOMAIN sgs} :
        /\ graph[input_name].op # "placeholder"
        /\ \A k \in DOMAIN sgs : input_name \notin sgs[k].output_names}

\* the names for which `for subgraph in reversed(subgraphs)` ends without a
\* break: the else branch of the loop is `assert False`
Unresolved(sgs) ==
    {input_name \in UNION {sgs[k].input_names : k \in DOMAIN sgs} :
        \A k \in DOMAIN sgs : input_name \notin sgs[k].input_names}

PartitionGraph ==
    /\ UNCHANGED nonGraphVars
    /\ pc = "partitioned"
    /\ IF \E k \in DOMAIN partitions : ~NodeCopyDefined(partitions[k])
       THEN /\ pc' = "error"
            /\ err' = "KeyError"
            /\ UNCHANGED subgraphs
       ELSE IF \E k \in DOMAIN partitions :
                  ~check_assumption(BuildSubgraph(partitions[k]).graph)
       THEN /\ pc' = "error"
            /\ err' = "AssertionError"
            /\ UNCHANGED subgraphs
       ELSE IF Unresolved([k \in DOMAIN partitions |-> BuildSubgraph(partitions[k])]) # {}
       THEN /\ pc' = "error"
            /\ err' = "assert False"
            /\ UNCHANGED subgraphs
       ELSE /\ subgraphs' = WithConsumedNames(
                                [k \in DOMAIN partitions |-> BuildSubgraph(partitions[k])])
            /\ pc' = "built"
            /\ err' = err
    /\ UNCHANGED <<graph, variant, partitions, remaining_indegrees,
                   partition_index, queue, dequeued, mode, num_batches,
                   subgraph_index, batch_index, batch_intermediates,
                   batch_outputs, executed, deleted,
                   dataloader>>

\* ------------------------------------------------------------------ values
\* Every node operation is a deterministic function of its input values: the
\* value of a node is the term built from the node and its arguments' values.
NoArgs == [i \in {} |-> 0]

\* the tensor sample `batch` supplies for placeholder `name`
InputValue(name, batch) == [node |-> name, args |-> NoArgs, sample |-> batch]

NodeValue(node, env) ==
    [node |-> node,
     args |-> [i \in graph[node].all_input_nodes |-> env[i]],
     sample |-> 0 - 1]

\* model.forward(**batch): the original graph executed directly
RECURSIVE DirectValue(_, _)
DirectValue(node, batch) ==
    IF graph[node].op = "placeholder"
    THEN InputValue(node, batch)
    ELSE [node |-> node,
          args |-> [i \in graph[node].all_input_nodes |-> DirectValue(i, batch)],
          sample |-> 0 - 1]

\* the body python_code() generates: the nodes of the subgraph in list order
RECURSIVE Execute(_, _, _)
Execute(nodes, i, env) ==
    IF i > Len(nodes) THEN env
    ELSE IF graph[nodes[i]].op = "placeholder"
         THEN Execute(nodes, i + 1, env)
         ELSE Execute(nodes, i + 1, env @@ (nodes[i] :> NodeValue(nodes[i], env)))

\* forward_function(self.model, **inputs)
forward_function(subgraph, inputs) ==
    LET env == Execute(subgraph.nodes, 1, inputs)
    IN  IF subgraph.has_output
        THEN [kind |-> "output", value |-> env[OutputNode]]
        ELSE [kind |-> "dict", value |-> [name \in subgraph.output_names |-> env[name]]]

\* The key under which a model output (a ModelOutput mapping, as returned by
\* Model.forward) lands in the cache when a non-final subgraph returns it.
OutputKey == 0

\* intermediates.update(subgraph_output)
Update(intermediates, subgraph_output) ==
    LET new == IF subgraph_output.kind = "dict" THEN subgraph_output.value
               ELSE (OutputKey :> subgraph_output.value)
    IN  [name \in DOMAIN intermediates \cup DOMAIN new |->
            IF name \in DOMAIN new THEN new[name] ELSE intermediates[name]]

\* del intermediates[consumed_name] for every consumed name
Delete(intermediates, consumed_names) ==
    [name \in DOMAIN intermediates \ consumed_names |-> intermediates[name]]

\* {input_name: intermediates[input_name] for input_name in input_names}
Gather(intermediates, input_names) ==
    [input_name \in input_names |-> intermediates[input_name]]

\* no sample handed over yet
NoSamples == [samples |-> <<>>, shared |-> FALSE]

\* the sample's own named inputs: one value per placeholder of the graph
Batch(batch) ==
    [name \in {n \in Nodes : graph[n].op = "placeholder"} |-> InputValue(name, batch)]

DeletionLog(batch, index, consumed_names) ==
    [i \in 1..Cardinality(consumed_names) |->
        <<batch, index, SortedSeq(consumed_names)[i]>>]

\* `if subgraph_index < len(self.subgraphs) - 1`
NotFinal(index) == index < Len(subgraphs) - 1

\* ------------------------------------------- forward (one call per sample)
\* hooked_model.forward(**batch) for the next batch of the data loader
ForwardBegin ==
    /\ UNCHANGED nonGraphVars
    /\ pc = "built"
    /\ mode \in {"none", "forward"}
    /\ Len(batch_outputs) < MaxSamples
    /\ pc' = "forward"
    /\ mode' = "forward"
    /\ batch_index' = Len(batch_outputs)
    /\ subgraph_index' = 0
    /\ batch_intermediates' = (Len(batch_outputs) :> Batch(Len(batch_outputs)))
    /\ dataloader' = [samples |-> [b \in 0..(MaxSamples - 1) |-> Batch(b)],
                      shared |-> FALSE]
    /\ UNCHANGED <<graph, variant, err, partitions, remaining_indegrees,
                   partition_index, queue, dequeued, subgraphs, num_batches,
                   batch_outputs, executed, deleted>>

\* one iteration of `for subgraph_index, subgraph in enumerate(self.subgraphs)`
ForwardStep ==
    /\ UNCHANGED nonGraphVars
    /\ pc = "forward"
    /\ LET subgraph == subgraphs[subgraph_index + 1]
           intermediates == batch_intermediates[batch_index]
       IN  IF ~(subgraph.input_names \subseteq DOMAIN intermediates)
           THEN /\ pc' = "error"
                /\ err' = "KeyError"
                /\ UNCHANGED <<subgraph_index, batch_intermediates,
                               batch_outputs, executed, deleted>>
           ELSE LET out == forward_function(subgraph,
                                            Gather(intermediates, subgraph.input_names))
                IN  /\ executed' = Append(executed, <<subgraph_index, batch_index>>)
                    /\ IF NotFinal(subgraph_index)
                       THEN LET updated == Update(intermediates, out)
                            IN  IF subgraph.consumed_names \subseteq DOMAIN updated
                                THEN /\ batch_intermediates' =
                                          (batch_index :>
                                              Delete(updated, subgraph.consumed_names))
                                     /\ deleted' = deleted \o
                                          DeletionLog(batch_index, subgraph_index,
                                                      subgraph.consumed_names)
                                     /\ subgraph_index' = subgraph_index + 1
                                     /\ UNCHANGED <<pc, err, batch_outputs>>
                                ELSE /\ pc' = "error"
                                     /\ err' = "KeyError"
                                     /\ UNCHANGED <<subgraph_index, batch_intermediates,
                                                    batch_outputs, deleted>>
                       ELSE /\ batch_outputs' = Append(batch_outputs, out)
                            /\ pc' = "built"
                            /\ UNCHANGED <<err, subgraph_index, batch_intermediates,
                                           deleted>>
    /\ UNCHANGED <<graph, variant, partitions, remaining_indegrees,
                   partition_index, queue, dequeued, subgraphs, mode,
                   num_batches, batch_index,
                   dataloader>>

\* ----------------------------------------------------------- forward_data
NoOutput == [kind |-> "None", value |-> NoArgs]

\* batch_intermediates and batch_outputs of forward_data; the pad mask
\* changes tensor contents, not the names a batch holds.  Without
\* mask_padding the list holds the very mappings the data loader yields;
\* apply_pad_mask_to_batch may hand back its argument or a new mapping.
ForwardDataBegin ==
    /\ UNCHANGED nonGraphVars
    /\ pc = "built"
    /\ mode = "none"
    /\ \E n \in 1..MaxSamples, mask_padding \in BOOLEAN :
          /\ num_batches' = n
          /\ batch_intermediates' = [b \in 0..(n - 1) |-> Batch(b)]
          /\ \E shared \in (IF mask_padding THEN BOOLEAN ELSE {TRUE}) :
                dataloader' = [samples |-> [b \in 0..(n - 1) |-> Batch(b)],
                               shared |-> shared]
          /\ batch_outputs' = [b \in 1..n |-> NoOutput]
    /\ pc' = "forward_data"
    /\ mode' = "forward_data"
    /\ subgraph_index' = 0
    /\ batch_index' = 0
    /\ UNCHANGED <<graph, variant, err, partitions, remaining_indegrees,
                   partition_index, queue, dequeued, subgraphs, executed, deleted>>

\* the loops nested the other way round: every subgraph for one sample, then
\* the next sample
NextIterationSampleMajor(index, batch) ==
    IF index + 1 < Len(subgraphs) THEN <<index + 1, batch>>
    ELSE IF batch + 1 < num_batches THEN <<0, batch + 1>>
    ELSE <<Len(subgraphs), 0>>

\* the loop nest: `for subgraph_index ...: for batch_index in range(len(dataloader))`
\* gives the iteration after <<index, batch>>
NextIteration(index, batch) ==
    IF batch + 1 < num_batches THEN <<index, batch + 1>> ELSE <<index + 1, 0>>

\* one iteration of the inner loop of forward_data
ForwardDataStep ==
    /\ UNCHANGED nonGraphVars
    /\ pc = "forward_data"
    /\ LET subgraph == subgraphs[subgraph_index + 1]
           intermediates == batch_intermediates[batch_index]
       IN  IF ~(subgraph.input_names \subseteq DOMAIN intermediates)
           THEN /\ pc' = "error"
                /\ err' = "KeyError"
                /\ UNCHANGED <<subgraph_index, batch_index, batch_intermediates,
                               batch_outputs, executed, deleted>>
           ELSE LET out == forward_function(subgraph,
                                            Gather(intermediates, subgraph.input_names))
                    vacated == Delete(intermediates, subgraph.consumed_names)
                    next == NextIteration(subgraph_index, batch_index)
                IN  /\ executed' = Append(executed, <<subgraph_index, batch_index>>)
                    /\ deleted' = deleted \o
                          DeletionLog(batch_index, subgraph_index, subgraph.consumed_names)
                    /\ IF NotFinal(subgraph_index)
                       THEN /\ batch_intermediates' =
                                 [batch_intermediates EXCEPT
                                     ![batch_index] = Update(vacated, out)]
                            /\ UNCHANGED batch_outputs
                       ELSE /\ batch_intermediates' =
                                 [batch_intermediates EXCEPT ![batch_index] = vacated]
                            /\ batch_outputs' =
                                 [batch_outputs EXCEPT ![batch_index + 1] = out]
                    /\ subgraph_index' = next[1]
                    /\ batch_index' = next[2]
                    /\ pc' = IF next[1] < Len(subgraphs) THEN "forward_data" ELSE "done"
                    /\ err' = err
    /\ dataloader' = IF dataloader.shared
                      THEN [dataloader EXCEPT !.samples = batch_intermediates']
                      ELSE dataloader
    /\ UNCHANGED <<graph, variant, partitions, remaining_indegrees,
                   partition_index, queue, dequeued, subgraphs, mode, num_batches>>

\* ------------------------------------------------------ Hessian: add_batch
\* Number of samples one batch may hold.
MaxBatch == 2
\* Number of calibration samples accumulated in one run.
MaxCalibration == 3

\* columns (input features) of the wrapped Linear layer
Columns == {1, 2}

\* entries of an activation tensor
ActivationValues == {0, 1}

\* sequence lengths of a batch
SeqLens == {1, 2}

\* inp of shape (batch, seq, in_features); a 2-D inp is unsqueezed to a batch
\* of one sample
Inputs ==
    UNION {[1..m -> [1..l -> [Columns -> ActivationValues]]] :
              m \in 1..MaxBatch, l \in SeqLens}

RECURSIVE GCD(_, _)
GCD(a, b) == IF b = 0 THEN a ELSE GCD(b, a % b)

Abs(x) == IF x < 0 THEN 0 - x ELSE x

RECURSIVE GCDOfSeq(_)
GCDOfSeq(q) == IF q = <<>> THEN 0 ELSE GCD(Abs(Head(q)), GCDOfSeq(Tail(q)))

Entries == Columns \X Columns

\* the rational matrix num/den in lowest terms (a matrix has one such form)
Reduced(num, den) ==
    LET g == GCD(den, GCDOfSeq([k \in 1..Cardinality(Entries) |->
                                   num[SortedPairs(Entries)[k]]]))
    IN  [num |-> [e \in Entries |-> num[e] \div g], den |-> den \div g]

RECURSIVE SumOver(_, _)
SumOver(S, f) ==
    IF S = {} THEN 0
    ELSE LET x == CHOOSE y \in S : TRUE IN f[x] + SumOver(S \ {x}, f)

\* inp.reshape((-1, inp.shape[-1])): the rows of every sample, one after another
RECURSIVE Reshape(_)
Reshape(inp) == IF inp = <<>> THEN <<>> ELSE Head(inp) \o Reshape(Tail(inp))

\* inp.t().matmul(inp.t().t()) for the reshaped inp: entry (i, j) sums over rows
Matmul(rows) ==
    [e \in Entries |->
        SumOver(DOMAIN rows, [r \in DOMAIN rows |-> rows[r][e[1]] * rows[r][e[2]]])]

\* add_batch scaling the new batch by sqrt(2 / tmp), the size of the batch,
\* not by the updated nsamples
add_batch_scaled_by_batch(h, n, inp) ==
    LET tmp == Len(inp)
        rescaled == [num |-> [e \in Entries |-> h.num[e] * n], den |-> h.den * (n + tmp)]
        product == Matmul(Reshape(inp))
    IN  [H |-> Reduced([e \in Entries |->
                            rescaled.num[e] * tmp + 2 * product[e] * rescaled.den],
                       rescaled.den * tmp),
         nsamples |-> n + tmp]

\* add_batch for a Linear layer, in exact arithmetic:
\*   H *= nsamples / (nsamples + tmp); nsamples += tmp
\*   inp = sqrt(2 / nsamples) * inp;   H += inp.matmul(inp.t())
\* sqrt(2 / nsamples) enters the product twice, as the factor 2 / nsamples.
add_batch(h, n, inp) ==
    LET tmp == Len(inp)
        rescaled == [num |-> [e \in Entries |-> h.num[e] * n], den |-> h.den * (n + tmp)]
        updated == n + tmp
        product == Matmul(Reshape(inp))
    IN  [H |-> Reduced([e \in Entries |->
                            rescaled.num[e] * updated + 2 * product[e] * rescaled.den],
                       rescaled.den * updated),
         nsamples |-> updated]

\* sum of x * x^T over the positions of inp, entry by entry
SecondMoment(inp) ==
    [e \in Entries |->
        SumOver({<<s, p>> \in (DOMAIN inp) \X (1..MaxOf(SeqLens)) : p \in DOMAIN inp[s]},
                [sp \in (DOMAIN inp) \X (1..MaxOf(SeqLens)) |->
                    IF sp[2] \in DOMAIN inp[sp[1]]
                    THEN inp[sp[1]][sp[2]][e[1]] * inp[sp[1]][sp[2]][e[2]]
                    ELSE 0])]

\* one forward pass of the wrapped module: the hook calls add_batch
AddBatch ==
    /\ \E inp \in Inputs :
          /\ nsamples + Len(inp) <= MaxCalibration
          /\ H' = add_batch(H, nsamples, inp).H
          /\ nsamples' = add_batch(H, nsamples, inp).nsamples
          /\ observed' = [e \in Entries |-> observed[e] + SecondMoment(inp)[e]]
          /\ batch_sizes' = Append(batch_sizes, Len(inp))
    /\ UNCHANGED nonHessianVars

\* ------------------------------------------ LayerCompressor / GPTQWrapper
\* Number of LayerCompressor calls (and calibration forward passes) in a run.
MaxCalls == 5

\* the compressible modules of the layer, in named_modules() order
CompressibleModules == <<"q_proj", "k_proj">>

ModuleNames == SeqToSet(CompressibleModules)

\* the lifecycle state of a module's wrapper, read from the wrapper's fields
StateOf(w) ==
    IF ~w.created THEN "UNREGISTERED"
    ELSE IF ~w.has_H THEN "FREED"
    ELSE IF w.replaced THEN "REPLACED"
    ELSE IF w.quantizing THEN "QUANTIZING"
    ELSE "ACCUMULATING"

\* GPTQWrapper.__init__: H zero-initialised, nothing observed
NewWrapper(w) ==
    [w EXCEPT !.created = TRUE, !.wrapped = TRUE, !.has_H = TRUE, !.nsamples = 0]

\* a free that leaves the Hessian buffer in place
FreeKeepsH(w) == w

\* GPTQWrapper.free: delattr(self, "H")
Free(w) == [w EXCEPT !.has_H = FALSE]

\* pre_compress on a layer that holds no wrapper yet: wrap every compressible
\* module, then register the add_batch hooks.  After revert_layer_wrappers
\* self.modules is None: the first module is wrapped and
\* `self.modules[name] = wrapper` raises.
pre_compress ==
    /\ lc_pc = "idle"
    /\ lc_calls < MaxCalls
    /\ \A m \in ModuleNames : ~wrappers[m].created
    /\ IF modules = "None"
       THEN /\ wrappers' = [wrappers EXCEPT ![Head(CompressibleModules)] = NewWrapper(@)]
            /\ lifecycle' = [lifecycle EXCEPT ![Head(CompressibleModules)] = Append(@, "wrap")]
            /\ lc_pc' = "error"
            /\ lc_err' = "TypeError"
            /\ UNCHANGED <<modules, handles>>
       ELSE /\ wrappers' = [m \in ModuleNames |-> NewWrapper(wrappers[m])]
            /\ lifecycle' = [m \in ModuleNames |-> Append(lifecycle[m], "wrap")]
            /\ modules' = "dict"
            /\ handles' = ModuleNames
            /\ UNCHANGED <<lc_pc, lc_err>>
    /\ lc_calls' = lc_calls + 1
    /\ UNCHANGED to_compress
    /\ UNCHANGED <<early_stop_handle, early_stop_hooks>>
    /\ UNCHANGED nonLayerVars

\* The hooks a forward pass of the layer runs, module after module:
\*   self.modules[name].add_batch(inp[0].data, out.data)
\* The first hook that raises ends the pass.
RECURSIVE RunHooks(_, _)
RunHooks(names, st) ==
    IF names = <<>> \/ st.err # "none" THEN st
    ELSE LET name == Head(names) IN
         IF name \notin handles THEN RunHooks(Tail(names), st)
         ELSE IF modules = "None"
              THEN [st EXCEPT !.err = "TypeError"]
         ELSE IF ~st.wrappers[name].has_H
              THEN [st EXCEPT !.err = "AttributeError"]
         ELSE RunHooks(Tail(names),
                       [st EXCEPT !.wrappers[name].nsamples = @ + 1,
                                  !.lifecycle[name] = Append(@, "add_batch")])

\* set_early_stop: register trigger_early_stop_fn as a forward pre-hook of the
\* layer and store the new handle, whatever handle was stored before
set_early_stop ==
    /\ lc_pc = "idle"
    /\ lc_calls < MaxCalls
    /\ early_stop_hooks' = early_stop_hooks \cup {lc_calls + 1}
    /\ early_stop_handle' = lc_calls + 1
    /\ lc_calls' = lc_calls + 1
    /\ UNCHANGED <<modules, wrappers, handles, lc_pc, lc_err, to_compress, lifecycle>>
    /\ UNCHANGED nonLayerVars

\* clear_early_stop: remove the hook of the stored handle, if any
clear_early_stop ==
    /\ lc_pc = "idle"
    /\ lc_calls < MaxCalls
    /\ IF early_stop_handle # 0
       THEN /\ early_stop_hooks' = early_stop_hooks \ {early_stop_handle}
            /\ early_stop_handle' = 0
       ELSE UNCHANGED <<early_stop_handle, early_stop_hooks>>
    /\ lc_calls' = lc_calls + 1
    /\ UNCHANGED <<modules, wrappers, handles, lc_pc, lc_err, to_compress, lifecycle>>
    /\ UNCHANGED nonLayerVars

\* trigger_early_stop_fn runs before the layer's forward and raises
forward_pre_hook_raises == early_stop_hooks # {}

\* one calibration forward pass through the layer; an early-stop pre-hook
\* ends it before any module runs
calibrate ==
    /\ lc_pc = "idle"
    /\ lc_calls < MaxCalls
    /\ LET st == IF forward_pre_hook_raises
                 THEN [wrappers |-> wrappers, lifecycle |-> lifecycle,
                       err |-> "EarlyStopException"]
                 ELSE RunHooks(CompressibleModules,
                               [wrappers |-> wrappers, lifecycle |-> lifecycle,
                                err |-> "none"])
       IN  /\ wrappers' = st.wrappers
           /\ lifecycle' = st.lifecycle
           /\ lc_err' = st.err
           /\ lc_pc' = IF st.err = "none" THEN "idle" ELSE "error"
    /\ lc_calls' = lc_calls + 1
    /\ UNCHANGED <<modules, handles, to_compress>>
    /\ UNCHANGED <<early_stop_handle, early_stop_hooks>>
    /\ UNCHANGED nonLayerVars

\* compress: self.layer.apply(compress_module) visits the wrappers installed
\* in the layer
compress ==
    /\ lc_pc = "idle"
    /\ lc_calls < MaxCalls
    /\ to_compress' = SelectSeq(CompressibleModules, LAMBDA m : wrappers[m].wrapped)
    /\ lc_pc' = IF to_compress' = <<>> THEN "idle" ELSE "compress"
    /\ lc_calls' = lc_calls + 1
    /\ UNCHANGED <<modules, wrappers, handles, lc_err, lifecycle>>
    /\ UNCHANGED <<early_stop_handle, early_stop_hooks>>
    /\ UNCHANGED nonLayerVars

\* a compress that skips no layer
UnquantizedNever(w) == FALSE

\* `if quant_args is None`: "Skipping unquantized layer"
Unquantized(w) == w.quant_args = "None"

\* module.compress(**self.args) of GPTQWrapper for the next wrapper: skipped
\* without quantization arguments; reads self.H; the Cholesky factorization
\* succeeds or raises, as the accumulated data decide
module_compress ==
    /\ lc_pc = "compress"
    /\ LET m == Head(to_compress) IN
       IF Unquantized(wrappers[m])
       THEN /\ lc_pc' = "free"
            /\ UNCHANGED <<wrappers, lifecycle, lc_err>>
       ELSE IF ~wrappers[m].has_H
       THEN /\ lc_pc' = "error"
            /\ lc_err' = "AttributeError"
            /\ UNCHANGED <<wrappers, lifecycle>>
       ELSE \E positive_definite \in BOOLEAN :
               IF positive_definite
               THEN /\ wrappers' = [wrappers EXCEPT ![m].quantizing = TRUE,
                                                    ![m].replaced = TRUE]
                    /\ lifecycle' = [lifecycle EXCEPT
                                        ![m] = @ \o <<"compress", "replace">>]
                    /\ lc_pc' = "free"
                    /\ lc_err' = lc_err
               ELSE /\ wrappers' = [wrappers EXCEPT ![m].quantizing = TRUE]
                    /\ lifecycle' = [lifecycle EXCEPT ![m] = Append(@, "compress")]
                    /\ lc_pc' = "error"
                    /\ lc_err' = "ValueError"
    /\ UNCHANGED <<modules, handles, to_compress, lc_calls>>
    /\ UNCHANGED <<early_stop_handle, early_stop_hooks>>
    /\ UNCHANGED nonLayerVars

\* module.free() for the wrapper just compressed
module_free ==
    /\ lc_pc = "free"
    /\ LET m == Head(to_compress) IN
       IF ~wrappers[m].has_H
       THEN /\ lc_pc' = "error"
            /\ lc_err' = "AttributeError"
            /\ UNCHANGED <<wrappers, lifecycle, to_compress>>
       ELSE /\ wrappers' = [wrappers EXCEPT ![m] = Free(@)]
            /\ lifecycle' = [lifecycle EXCEPT ![m] = Append(@, "free")]
            /\ to_compress' = Tail(to_compress)
            /\ lc_pc' = IF Tail(to_compress) = <<>> THEN "idle" ELSE "compress"
            /\ lc_err' = lc_err
    /\ UNCHANGED <<modules, handles, lc_calls>>
    /\ UNCHANGED <<early_stop_handle, early_stop_hooks>>
    /\ UNCHANGED nonLayerVars

\* post_compress: remove the add_batch forward hooks
post_compress ==
    /\ lc_pc = "idle"
    /\ lc_calls < MaxCalls
    /\ handles' = {}
    /\ lc_calls' = lc_calls + 1
    /\ UNCHANGED <<modules, wrappers, lc_pc, lc_err, to_compress, lifecycle>>
    /\ UNCHANGED <<early_stop_handle, early_stop_hooks>>
    /\ UNCHANGED nonLayerVars

\* revert_layer_wrappers: put the wrapped layers back; self.modules = None
revert_layer_wrappers ==
    /\ lc_pc = "idle"
    /\ lc_calls < MaxCalls
    /\ IF modules = "None"
       THEN /\ lc_pc' = "error"
            /\ lc_err' = "AttributeError"
            /\ UNCHANGED <<modules, wrappers>>
       ELSE /\ wrappers' = [m \in ModuleNames |->
                               IF modules = "dict"
                               THEN [wrappers[m] EXCEPT !.wrapped = FALSE]
                               ELSE wrappers[m]]
            /\ modules' = "None"
            /\ UNCHANGED <<lc_pc, lc_err>>
    /\ lc_calls' = lc_calls + 1
    /\ UNCHANGED <<handles, to_compress, lifecycle>>
    /\ UNCHANGED <<early_stop_handle, early_stop_hooks>>
    /\ UNCHANGED nonLayerVars

\* ------------------------------------------- SequentialLayerCompressor
\* Number of forward calls of the layer in one run.
MaxForwards == 2

\* the modules of the layer that carry quantization_scheme.weights, in the
\* order the layer's forward calls them; the layer itself is a sequential
\* target (its name is in `layers`)
QuantizedModules == <<"q_proj", "k_proj">>

\* a registered hook runs func whatever HOOKS_DISABLED says
HookRunsWhenRegistered == hooked

\* HooksMixin.hook: the wrapped hook runs func unless HOOKS_DISABLED; a hook
\* that was never registered, or was removed, is not called at all
HookRuns == hooked /\ ~HOOKS_DISABLED

\* HooksMixin.hook: `wrapped` calls func and returns nothing, so a forward
\* hook never replaces the module's output: the module hands on the output
\* its own forward computed
HandedOn(forward_output, hook_return) == forward_output

\* target_post_forward compressing whatever true_sequential says
CompressAfterAlways == TRUE

\* target_pre_forward: `if self.true_sequential`
CompressBefore == true_sequential

\* target_post_forward: `if not self.true_sequential`
CompressAfter == ~true_sequential

SeqAt(at, i, rerun) == [at |-> at, i |-> i, rerun |-> rerun]

\* a hook of another HooksMixin instance registered on the same module: the
\* hook tests the flag of its own instance, which nobody has set
OtherHookRunsAlways == TRUE

\* a hook of another HooksMixin instance registered on the same module:
\* `wrapped` tests cls.HOOKS_DISABLED, and cls is HooksMixin for every hook
\* and for disable_hooks
OtherHookRuns == ~HOOKS_DISABLED

Event(ev, m) ==
    [ev |-> ev, module |-> m, call |-> forward_calls,
     version |-> weight_version[m], enabled |-> HookRuns,
     rerun |-> seq_pc.rerun, other_hook |-> OtherHookRuns]

\* loss = self.compress_fn(name, module, args): the weight of the module is
\* compressed, or compress_fn raises and the exception leaves the forward pass
\* and every disable_hooks() context around it (the flag is False already)
compress_fn(m, next, then) ==
    \E raises \in BOOLEAN :
        IF raises
        THEN /\ events' = Append(events, Event("compress_fn", m))
             /\ seq_pc' = SeqAt("error", seq_pc.i, seq_pc.rerun)
             /\ contexts' = 0
             /\ UNCHANGED weight_version
        ELSE /\ events' = Append(events, [Event("compress_fn", m) EXCEPT !.version = @ + 1])
                          \o then
             /\ seq_pc' = next
             /\ weight_version' = [weight_version EXCEPT ![m] = @ + 1]
             /\ UNCHANGED contexts

\* register_hooks(model): pre and post hooks on every module with a weight
\* scheme and on every sequential target
register_hooks ==
    /\ seq_pc.at = "idle"
    /\ ~hooked
    /\ hooked' = TRUE
    /\ UNCHANGED <<true_sequential, HOOKS_DISABLED, layer_index, seq_pc,
                   weight_version, module_outputs, output, compressed_output,
                   returned, events, forward_calls, contexts>>
    /\ UNCHANGED nonSequentialVars

\* remove_hooks()
remove_hooks ==
    /\ seq_pc.at = "idle"
    /\ hooked
    /\ hooked' = FALSE
    /\ UNCHANGED <<true_sequential, HOOKS_DISABLED, layer_index, seq_pc,
                   weight_version, module_outputs, output, compressed_output,
                   returned, events, forward_calls, contexts>>
    /\ UNCHANGED nonSequentialVars

\* model.forward() reaches the layer: its pre hook layer_pre_forward only logs
layer_pre_forward ==
    /\ seq_pc.at = "idle"
    /\ forward_calls < MaxForwards
    /\ forward_calls' = forward_calls + 1
    /\ seq_pc' = SeqAt("target_pre", 1, FALSE)
    /\ module_outputs' = <<>>
    /\ UNCHANGED <<true_sequential, HOOKS_DISABLED, hooked, layer_index,
                   weight_version, output, compressed_output, returned, events,
                   contexts>>
    /\ UNCHANGED nonSequentialVars

\* target_pre_forward of the next module of the layer
target_pre_forward ==
    /\ seq_pc.at = "target_pre"
    /\ LET m == QuantizedModules[seq_pc.i]
           next == SeqAt("forward", seq_pc.i, seq_pc.rerun)
       IN  IF HookRuns /\ CompressBefore
           THEN compress_fn(m, next, <<>>)
           ELSE /\ seq_pc' = next
                /\ UNCHANGED <<events, weight_version, contexts>>
    /\ UNCHANGED <<true_sequential, HOOKS_DISABLED, hooked, layer_index,
                   module_outputs, output, compressed_output, returned,
                   forward_calls>>
    /\ UNCHANGED nonSequentialVars

\* the module's own forward: its output comes from the weight it holds now;
\* or it raises, and the exception leaves every disable_hooks() context around
\* it: `finally: cls.HOOKS_DISABLED = False`
module_forward ==
    /\ seq_pc.at = "forward"
    /\ LET m == QuantizedModules[seq_pc.i]
       IN  \E raises \in BOOLEAN :
              IF raises
              THEN /\ seq_pc' = SeqAt("error", seq_pc.i, seq_pc.rerun)
                   /\ HOOKS_DISABLED' = IF contexts > 0 THEN FALSE ELSE HOOKS_DISABLED
                   /\ contexts' = 0
                   /\ UNCHANGED <<module_outputs, events>>
              ELSE /\ module_outputs' = Append(module_outputs, weight_version[m])
                   /\ events' = Append(events, Event("forward", m))
                   /\ seq_pc' = SeqAt("target_post", seq_pc.i, seq_pc.rerun)
                   /\ UNCHANGED <<HOOKS_DISABLED, contexts>>
    /\ UNCHANGED <<true_sequential, hooked, layer_index,
                   weight_version, output, compressed_output, returned,
                   forward_calls>>
    /\ UNCHANGED nonSequentialVars

\* target_post_forward of the module that has just run
target_post_forward ==
    /\ seq_pc.at = "target_post"
    /\ LET m == QuantizedModules[seq_pc.i]
           next == IF seq_pc.i < Len(QuantizedModules)
                   THEN SeqAt("target_pre", seq_pc.i + 1, seq_pc.rerun)
                   ELSE SeqAt("layer_post", 0, seq_pc.rerun)
       IN  IF HookRuns /\ CompressAfter
           THEN compress_fn(m, next, <<Event("post", m)>>)
           ELSE /\ seq_pc' = next
                /\ events' = Append(events, Event("post", m))
                /\ UNCHANGED <<weight_version, contexts>>
    /\ UNCHANGED <<true_sequential, HOOKS_DISABLED, hooked, layer_index,
                   module_outputs, output, compressed_output, returned,
                   forward_calls>>
    /\ UNCHANGED nonSequentialVars

Returned(out, rerun_output, ran) ==
    [call |-> forward_calls, out |-> out, compressed_output |-> rerun_output,
     hook_ran |-> ran]

\* layer_post_forward after the layer's own forward: with true_sequential
\* False it enters disable_hooks() and calls the layer again; otherwise it
\* advances _layer_index and returns `output`
layer_post_forward ==
    /\ seq_pc.at = "layer_post"
    /\ ~seq_pc.rerun
    /\ IF HookRuns /\ ~true_sequential
       THEN /\ HOOKS_DISABLED' = TRUE
            /\ contexts' = contexts + 1
            /\ output' = module_outputs
            /\ module_outputs' = <<>>
            /\ seq_pc' = SeqAt("target_pre", 1, TRUE)
            /\ UNCHANGED <<layer_index, returned>>
       ELSE /\ layer_index' = IF HookRuns THEN layer_index + 1 ELSE layer_index
            /\ returned' = Append(returned,
                                  Returned(HandedOn(module_outputs, module_outputs),
                                           <<>>, HookRuns))
            /\ seq_pc' = SeqAt("idle", 0, FALSE)
            /\ UNCHANGED <<HOOKS_DISABLED, output, module_outputs, contexts>>
    /\ UNCHANGED <<true_sequential, hooked, weight_version, compressed_output,
                   events, forward_calls>>
    /\ UNCHANGED nonSequentialVars

\* the re-run ends with the layer's own post hook, whose body advances
\* _layer_index unless it is skipped, and returns compressed_output:
\* disable_hooks() resets the flag, _layer_index is advanced and the hook
\* returns `output`
layer_rerun_return ==
    /\ seq_pc.at = "layer_post"
    /\ seq_pc.rerun
    /\ compressed_output' = module_outputs
    /\ HOOKS_DISABLED' = FALSE
    /\ contexts' = contexts - 1
    /\ layer_index' = layer_index + 1 + (IF HookRuns THEN 1 ELSE 0)
    /\ returned' = Append(returned, Returned(HandedOn(output, output), module_outputs, TRUE))
    /\ seq_pc' = SeqAt("idle", 0, FALSE)
    /\ UNCHANGED <<true_sequential, hooked, weight_version, module_outputs,
                   output, events, forward_calls>>
    /\ UNCHANGED nonSequentialVars

\* Number of disable_hooks() contexts a caller nests around forward passes.
MaxContexts == 2

\* `with HooksMixin.disable_hooks():` entered by the code that runs the model
disable_hooks_enter ==
    /\ seq_pc.at = "idle"
    /\ contexts < MaxContexts
    /\ HOOKS_DISABLED' = TRUE
    /\ contexts' = contexts + 1
    /\ UNCHANGED <<true_sequential, hooked, layer_index, seq_pc, weight_version,
                   module_outputs, output, compressed_output, returned, events,
                   forward_calls>>
    /\ UNCHANGED nonSequentialVars

\* the innermost of these contexts left: `finally: cls.HOOKS_DISABLED = False`
disable_hooks_exit ==
    /\ seq_pc.at = "idle"
    /\ contexts > 0
    /\ HOOKS_DISABLED' = FALSE
    /\ contexts' = contexts - 1
    /\ UNCHANGED <<true_sequential, hooked, layer_index, seq_pc, weight_version,
                   module_outputs, output, compressed_output, returned, events,
                   forward_calls>>
    /\ UNCHANGED nonSequentialVars

\* ------------------------------- quantize_weight / GPTQWrapper.compress
\* num_columns = W.shape[1] of the quantized weight
num_columns == 4

ColumnIndex == 0..(num_columns - 1)

QEntries == ColumnIndex \X ColumnIndex

\* the quantizer calls: GPTQWrapper.compress (called by LayerCompressor),
\* GPTQModifier.compress_module (which calls quantize_weight without
\* weight_original) and quantize_weight called with weight_original; "token"
\* is a QuantizationStrategy the GPTQ loop does not support; percdamp is in
\* quarters; the weight has one output row, `zeros` are its entries that are
\* exactly zero
Calls ==
    [entry : {"GPTQWrapper.compress", "compress_module", "quantize_weight"},
     zeros : {{}, {3}, {1, 3}},
     strategy : {"tensor", "channel", "group", "token"},
     actorder : {"none", "group", "weight"},
     group_size : {2},
     blocksize : {2, 3},
     percdamp : {0, 1}]

\* module inputs (batch, seq, in_features) of the calibration pass: two
\* batches of one token
QInputs == [1..2 -> [1..1 -> [ColumnIndex -> {0, 1}]]]

\* compute_hessian for a Linear layer: (sqrt(2 / nsamples) * inp) times its
\* transpose, exactly: 2 * inp^T inp / nsamples. GPTQWrapper.add_batch yields
\* the same H for one batch.
compute_hessian(inp) ==
    LET rows == Reshape(inp)
    IN  [num |-> [e \in QEntries |->
                     2 * SumOver(DOMAIN rows,
                                 [r \in DOMAIN rows |-> rows[r][e[1]] * rows[r][e[2]]])],
         den |-> Len(inp)]

\* a column of the weight: the original column it holds, whether it is exactly
\* zero, which group's scale quantized it, which original column served as `w`
\* for its error, whether that error is exactly zero, and the columns whose
\* error was subtracted from it
Column(c) ==
    [origin |-> c, zero |-> FALSE, quantized |-> FALSE, group |-> -1, w |-> -1,
     err |-> "none", absorbed |-> {}]

\* Python's None, and a parameter the call has not written
None == <<>>

\* the module's parameters before the call
InitialLayer ==
    [weight |-> [c \in ColumnIndex |-> [Column(c) EXCEPT !.zero = c \in call.zeros]],
     weight_scale |-> None,
     weight_zero_point |-> None, weight_g_idx |-> None]

\* torch.argsort(torch.diag(H), descending=True): every permutation that
\* sorts the diagonal; the order of tied entries is not specified
argsort_descending(h) ==
    {p \in [ColumnIndex -> ColumnIndex] :
        /\ \A a, b \in ColumnIndex : a # b => p[a] # p[b]
        /\ \A a \in ColumnIndex \ {num_columns - 1} :
               h.num[<<p[a], p[a]>>] >= h.num[<<p[a + 1], p[a + 1]>>]}

\* argsort that returns its argument
argsort_same(p) == p

\* torch.argsort(perm): where each index stands in perm
argsort(p) == [k \in ColumnIndex |-> CHOOSE a \in ColumnIndex : p[a] = k]

\* W[:, perm]
PermuteColumns(w, p) == [c \in ColumnIndex |-> w[p[c]]]

\* H[perm][:, perm]
PermuteHessian(h, p) == [h EXCEPT !.num = [e \in QEntries |-> h.num[<<p[e[1]], p[e[2]]>>]]]

\* observer(W, g_idx=None): scale and zero_point of each group of columns (one
\* group of all columns unless the strategy is group)
observer(w, strategy, group_size) ==
    [g \in (IF strategy = "group" THEN 0..((num_columns - 1) \div group_size) ELSE {0}) |->
        [cols |-> {w[c].origin : c \in {c \in ColumnIndex :
                                          strategy = "group" => c \div group_size = g}},
         refreshed |-> FALSE]]

\* torch.arange(num_columns) // group_size
DefaultGroups(group_size) == [c \in ColumnIndex |-> c \div group_size]

QAt(at, i1, i) == [at |-> at, i1 |-> i1, i |-> i]

\* the observer always given the permuted weight
ObservedWeightPermuted(w, p, actorder) == PermuteColumns(w, p)

\* the weight the observer is given: ActivationOrdering.GROUP permutes first,
\* ActivationOrdering.WEIGHT computes scale and zero point first
ObservedWeight(w, p, actorder) ==
    IF actorder = "group" THEN PermuteColumns(w, p) ELSE w

\* the strategy branch and the activation ordering before the loop
apply_activation_ordering ==
    /\ q_pc.at = "begin"
    /\ IF call.strategy = "group" /\ call.actorder # "none"
       THEN \E p \in argsort_descending(qH) :
               /\ perm' = p
               /\ W' = PermuteColumns(W, p)
               /\ qH' = PermuteHessian(qH, p)
               /\ g_idx' = IF call.actorder = "weight"
                           THEN [c \in ColumnIndex |-> DefaultGroups(call.group_size)[p[c]]]
                           ELSE DefaultGroups(call.group_size)
               /\ scale' = observer(ObservedWeight(W, p, call.actorder),
                                    call.strategy, call.group_size)
       ELSE /\ g_idx' = IF call.strategy = "group"
                        THEN DefaultGroups(call.group_size) ELSE <<>>
            /\ scale' = observer(W, call.strategy, call.group_size)
            /\ UNCHANGED <<perm, W, qH>>
    /\ q_pc' = QAt("mask", 0, 0)
    /\ UNCHANGED <<call, q_err, Hinv, dead, layer, result, blocks, W_nz_mask>>
    /\ UNCHANGED nonQuantizerVars

\* W[:, dead] = 0 on every column, dead or not
MaskedWeightAll(w, d) ==
    [c \in ColumnIndex |-> IF d # {} THEN [w[c] EXCEPT !.zero = TRUE] ELSE w[c]]

\* W[:, dead] = 0
MaskedWeight(w, d) ==
    [c \in ColumnIndex |-> IF c \in d THEN [w[c] EXCEPT !.zero = TRUE] ELSE w[c]]

\* H[dead, dead] = 1: the diagonal entries of the dead positions
MaskedHessian(h, d) ==
    [h EXCEPT !.num = [e \in QEntries |->
                          IF e[1] = e[2] /\ e[1] \in d THEN h.den ELSE h.num[e]]]

\* fraction of the entries of the weight that are zero, in entries out of
\* num_columns
tensor_sparsity(w) == Cardinality({c \in ColumnIndex : w[c].zero})

\* the fraction from which zeros are preserved: half of the entries
SPARSITY_THRESHOLD == 2

preserve_zeros(w) == tensor_sparsity(w) >= SPARSITY_THRESHOLD

\* the sparsity mask, then: mask dead hessian values
mask_dead ==
    /\ q_pc.at = "mask"
    /\ W_nz_mask' = IF preserve_zeros(W) THEN [c \in ColumnIndex |-> ~W[c].zero]
                    ELSE None
    /\ LET d == {c \in ColumnIndex : qH.num[<<c, c>>] = 0}
       IN  /\ dead' = d
           /\ qH' = MaskedHessian(qH, d)
           /\ W' = MaskedWeight(W, d)
    /\ q_pc' = QAt("invert", 0, 0)
    /\ UNCHANGED <<call, q_err, Hinv, perm, g_idx, scale, layer, result, blocks>>
    /\ UNCHANGED nonQuantizerVars

\* H[diag, diag] += percdamp * mean(diag(H)), over the common denominator
\* 4 * num_columns * den
Damped(h, percdamp) ==
    LET trace == SumOver(ColumnIndex, [c \in ColumnIndex |-> h.num[<<c, c>>]])
    IN  [num |-> [e \in QEntries |->
                     4 * num_columns * h.num[e]
                     + (IF e[1] = e[2] THEN percdamp * trace ELSE 0)],
         den |-> 4 * num_columns * h.den]

RECURSIVE Det(_, _, _)
Det(m, rows, cols) ==
    IF rows = <<>> THEN 1
    ELSE SumOver(DOMAIN cols,
                 [k \in DOMAIN cols |->
                     (IF k % 2 = 1 THEN 1 ELSE -1) * m[<<rows[1], cols[k]>>]
                     * Det(m, Tail(rows),
                           SubSeq(cols, 1, k - 1) \o SubSeq(cols, k + 1, Len(cols)))])

\* torch.linalg.cholesky succeeds on a symmetric matrix exactly when it is
\* positive definite: every leading principal minor is positive
positive_definite(h) ==
    \A k \in 1..num_columns :
        Det(h.num, [a \in 1..k |-> a - 1], [a \in 1..k |-> a - 1]) > 0

RECURSIVE Coupled(_, _)
Coupled(h, S) ==
    LET T == S \cup {b \in ColumnIndex : \E a \in S : h.num[<<a, b>>] # 0}
    IN  IF T = S THEN S ELSE Coupled(h, T)

\* the upper Cholesky factor of the inverse of H: an entry off the diagonal is
\* exactly zero when H does not couple its two positions
UpperFactor(h) ==
    [e \in QEntries |-> e[1] <= e[2] /\ e[2] \in Coupled(h, {e[1]})]

\* the error GPTQWrapper.compress raises in place of torch's LinAlgError,
\* raised by quantize_weight as well
GuidedError == [type |-> "ValueError", cause |-> "cholesky", guidance |-> TRUE]

\* invert_hessian has no handler: torch's own error reaches the caller
LinAlgError == [type |-> "LinAlgError", cause |-> "cholesky", guidance |-> FALSE]

Min(a, b) == IF a < b THEN a ELSE b

\* a single block that runs to the last column
BlockEndLast(i1, blocksize) == num_columns

\* i2 = min(i1 + blocksize, num_columns)
BlockEnd(i1, blocksize) == Min(i1 + blocksize, num_columns)

\* invert_hessian / the try block of GPTQWrapper.compress
invert_hessian ==
    /\ q_pc.at = "invert"
    /\ qH' = Damped(qH, call.percdamp)
    /\ IF positive_definite(Damped(qH, call.percdamp))
       THEN /\ Hinv' = UpperFactor(qH)
            /\ q_pc' = QAt("loop", 0, 0)
            /\ blocks' = <<<<0, BlockEnd(0, call.blocksize)>>>>
            /\ UNCHANGED q_err
       ELSE /\ q_err' = IF call.entry = "GPTQWrapper.compress"
                        THEN GuidedError ELSE LinAlgError
            /\ q_pc' = QAt("error", 0, 0)
            /\ UNCHANGED <<Hinv, blocks>>
    /\ UNCHANGED <<call, W, dead, perm, g_idx, scale, layer, result, W_nz_mask>>
    /\ UNCHANGED nonQuantizerVars

\* w - q is exactly zero when q is zero and `w` is zero: the same entry
\* (GPTQWrapper.compress: w = W1[:, i]) or a zero entry of weight_original
\* (quantize_weight: w = weight_original[:, i]); weight_original is not masked
ErrOf(col, i) ==
    IF col.zero /\ (call.entry = "GPTQWrapper.compress" \/ i \in call.zeros)
    THEN "zero" ELSE "nonzero"

\* the correction without the sparsity mask
PropagatedUnmasked(w, from, to) ==
    LET sources == {k \in from : k < to /\ Hinv[<<k, to>>] /\ w[k].err = "nonzero"}
    IN  IF sources = {} THEN w[to]
        ELSE [w[to] EXCEPT !.zero = FALSE,
                           !.absorbed = @ \cup {w[k].origin : k \in sources}]

\* W1[:, i:] -= w1_err inside the block, W[:, i2:] -= w_err after it: column
\* `to` takes the error of the columns at positions `from`; with
\* preserve_zeros the correction is multiplied by the mask
Propagated(w, from, to) ==
    LET sources == {k \in from : k < to /\ Hinv[<<k, to>>] /\ w[k].err = "nonzero"}
    IN  IF sources = {} \/ (W_nz_mask # None /\ ~W_nz_mask[to]) THEN w[to]
        ELSE [w[to] EXCEPT !.zero = FALSE,
                           !.absorbed = @ \cup {w[k].origin : k \in sources}]

\* one pass of `for i in range(count)`, with the block's end after its last
\* column; `for i1 in range(0, num_columns, blocksize)` gives the next block
quantize_column ==
    /\ q_pc.at = "loop"
    /\ LET i1 == q_pc.i1
           i == q_pc.i
           i2 == BlockEnd(i1, call.blocksize)
           next_i1 == i1 + call.blocksize
           column_idx == i1 + i
           group_index == IF call.strategy = "group" THEN g_idx[column_idx] ELSE 0
           refresh == /\ call.entry = "GPTQWrapper.compress"
                      /\ call.strategy = "group"
                      /\ call.actorder # "weight"
                      /\ column_idx % call.group_size = 0
           w == IF call.entry = "GPTQWrapper.compress"
                THEN W[column_idx].origin ELSE i
           quantized == [W EXCEPT ![column_idx] =
                            [@ EXCEPT !.quantized = TRUE, !.group = group_index,
                                      !.w = w, !.err = ErrOf(W[column_idx], i)]]
           inblock == [c \in ColumnIndex |->
                          IF c > column_idx /\ c < i2
                          THEN Propagated(quantized, {column_idx}, c)
                          ELSE quantized[c]]
           afterblock == [c \in ColumnIndex |->
                             IF c >= i2 THEN Propagated(inblock, i1..(i2 - 1), c)
                             ELSE inblock[c]]
       IN  IF call.entry = "compress_module"
           THEN /\ q_err' = [type |-> "TypeError", cause |-> "weight_original",
                             guidance |-> FALSE]
                /\ q_pc' = QAt("error", i1, i)
                /\ UNCHANGED <<W, scale, blocks>>
           ELSE IF call.strategy \notin {"tensor", "channel", "group"}
           THEN /\ q_err' = [type |-> "ValueError", cause |-> "strategy",
                             guidance |-> FALSE]
                /\ q_pc' = QAt("error", i1, i)
                /\ UNCHANGED <<W, scale, blocks>>
           ELSE /\ scale' = IF refresh
                            THEN [scale EXCEPT ![group_index] =
                                     [cols |-> {W[c].origin : c \in {c \in ColumnIndex :
                                                   g_idx[c] = group_index}},
                                      refreshed |-> TRUE]]
                            ELSE scale
                /\ W' = IF column_idx + 1 = i2 THEN afterblock ELSE inblock
                /\ q_pc' = IF column_idx + 1 < i2 THEN QAt("loop", i1, i + 1)
                           ELSE IF next_i1 < num_columns THEN QAt("loop", next_i1, 0)
                           ELSE QAt("finish", 0, 0)
                /\ blocks' = IF column_idx + 1 = i2 /\ next_i1 < num_columns
                             THEN Append(blocks,
                                         <<next_i1, BlockEnd(next_i1, call.blocksize)>>)
                             ELSE blocks
                /\ UNCHANGED q_err
    /\ UNCHANGED <<call, qH, Hinv, dead, perm, g_idx, layer, result, W_nz_mask>>
    /\ UNCHANGED nonQuantizerVars

\* has_gidx of quantize_weight; GPTQWrapper.compress updates weight_g_idx in
\* the same branch
has_gidx == call.strategy = "group" /\ call.actorder = "group"

\* the code after the loop: the permutation is undone, quantize_weight returns
\* and compress_module writes the weight; GPTQWrapper.compress updates the
\* module's parameters
finish ==
    /\ q_pc.at = "finish"
    /\ LET permuted == call.strategy = "group" /\ call.actorder # "none"
           invperm == argsort(perm)
           unpermuted == IF permuted THEN PermuteColumns(W, invperm) ELSE W
           groups == IF has_gidx THEN [c \in ColumnIndex |-> g_idx[invperm[c]]]
                     ELSE None
       IN  /\ W' = unpermuted
           /\ IF call.entry = "GPTQWrapper.compress"
              THEN /\ layer' = [weight |-> unpermuted, weight_scale |-> scale,
                                weight_zero_point |-> scale,
                                weight_g_idx |-> IF has_gidx THEN groups
                                                 ELSE layer.weight_g_idx]
                   /\ UNCHANGED result
              ELSE /\ result' = [loss |-> "loss", W |-> unpermuted, scale |-> scale,
                                 zero_point |-> scale, g_idx |-> groups]
                   /\ layer' = IF call.entry = "compress_module"
                               THEN [layer EXCEPT !.weight = unpermuted] ELSE layer
    /\ q_pc' = QAt("done", 0, 0)
    /\ UNCHANGED <<call, q_err, qH, Hinv, dead, perm, g_idx, scale, blocks,
                   W_nz_mask>>
    /\ UNCHANGED nonQuantizerVars

\* module.free() running whether module.compress returned or raised
compress_left == q_pc.at \in {"done", "error"}

\* LayerCompressor.compress: module.free() follows module.compress(**self.args)
compress_returned == q_pc.at = "done"

\* module.free() of LayerCompressor.compress: delattr(self, "H")
free ==
    /\ call.entry = "GPTQWrapper.compress"
    /\ compress_returned
    /\ q_pc' = QAt("freed", 0, 0)
    /\ qH' = <<>>
    /\ UNCHANGED <<call, q_err, Hinv, W, dead, perm, g_idx, scale, layer, result,
                   blocks, W_nz_mask>>
    /\ UNCHANGED nonQuantizerVars

\* ------------------------------------------------------------ GPTQModifier
\* Largest calibration dataset handed to on_initialize.
MaxDataset == 2

\* values of GPTQModifier.batch_size: the default -1, other non-positive
\* values, and batch sizes proper
BatchSizes == {-2, -1, 0, 1, 2}

\* math.ceil(a / b) for a >= 0 and b > 0
Ceil(a, b) == (a + b - 1) \div b

\* A weight value, by how it was made: `depth` successive quantizations of the
\* module's original weight on the inputs `inps`, or (acc non-empty) the sum
\* of the values in acc divided by div; fq: fake_quantize was applied to it.
OriginalWeight == [depth |-> 0, inps |-> <<>>, acc |-> <<>>, div |-> 1, fq |-> FALSE]

\* the quantized weight quantize_weight returns for `weight` and input inp
QuantizedWeight(weight, inp) ==
    [weight EXCEPT !.depth = @ + 1, !.inps = Append(@, inp)]

\* module.weight_acc / self._num_batches
Averaged(weight_acc, n) ==
    [depth |-> 0, inps |-> <<>>, acc |-> weight_acc, div |-> n, fq |-> FALSE]

fake_quantize(weight) == [weight EXCEPT !.fq = TRUE]

\* quantize_weight(weight, inp, ...): weight_original defaults to None and
\* the first statement of the column loop subscripts it, so a call that does
\* not pass it raises on the first column of the weight
quantize_weight(weight, inp, weight_original_given) ==
    IF weight_original_given
    THEN [raised |-> "none", quantized_weight |-> QuantizedWeight(weight, inp)]
    ELSE [raised |-> "TypeError", quantized_weight |-> weight]

\* GPTQModifier.compress_module(name, module, args) for the batch inp
compress_module(module, inp) ==
    LET out == quantize_weight(module.weight, inp, FALSE)
    IN  IF out.raised # "none"
        THEN [raised |-> out.raised, module |-> module]
        ELSE IF modifier.batch_size # -1
        THEN [raised |-> "none",
              module |-> [module EXCEPT !.weight_acc = Append(@, out.quantized_weight)]]
        ELSE [raised |-> "none",
              module |-> [module EXCEPT !.weight = out.quantized_weight]]

\* a `finally` clause that takes the hooks off the model
finally_remove_hooks(hooks) == FALSE

\* `try: self.calibration_forward(...) finally: pass`
finally_pass(hooks) == hooks

\* on_initialize up to the computation of _num_batches
on_initialize ==
    /\ modifier.pc = "init"
    /\ IF ~modifier.quantize
       THEN modifier' = [modifier EXCEPT !.pc = "error", !.err = "ValueError"]
       ELSE LET batch_size == IF modifier.batch_size <= 0 THEN modifier.dataset
                              ELSE modifier.batch_size
            IN  IF batch_size = 0
                THEN modifier' = [modifier EXCEPT !.pc = "error",
                                                  !.err = "ZeroDivisionError"]
                ELSE modifier' = [modifier EXCEPT
                                     !.pc = "register_hooks",
                                     !.num_batches = Ceil(modifier.dataset, batch_size)]
    /\ UNCHANGED quantized_module
    /\ UNCHANGED nonModifierVars

\* self.register_hooks(state.model)
modifier_register_hooks ==
    /\ modifier.pc = "register_hooks"
    /\ modifier' = [modifier EXCEPT !.pc = "pre_compress", !.hooks = TRUE,
                                    !.log = Append(@, "register_hooks")]
    /\ UNCHANGED quantized_module
    /\ UNCHANGED nonModifierVars

\* pre_compress_module for the module, if it is one that gets compressed
pre_compress_module ==
    /\ modifier.pc = "pre_compress"
    /\ modifier' = [modifier EXCEPT !.pc = "calibration_forward"]
    /\ quantized_module' =
          IF quantized_module.has_scheme /\ modifier.batch_size # -1
          THEN [quantized_module EXCEPT !.has_weight_acc = TRUE, !.weight_acc = <<>>]
          ELSE quantized_module
    /\ UNCHANGED nonModifierVars

\* calibration_forward: the next batch goes through the model, the hook of a
\* module with a weight scheme calling compress_module; after the last batch
\* the pass returns
calibration_forward ==
    /\ modifier.pc = "calibration_forward"
    /\ LET entered == [modifier EXCEPT
                          !.log = IF modifier.batches = 0 /\ modifier.calls = 0
                                     /\ (@ = <<>> \/ @[Len(@)] # "calibration_forward")
                                  THEN Append(@, "calibration_forward") ELSE @]
       IN  IF modifier.batches = modifier.num_batches
           THEN /\ modifier' = [entered EXCEPT !.pc = "remove_hooks"]
                /\ UNCHANGED quantized_module
           ELSE IF ~(quantized_module.has_scheme /\ modifier.hooks)
           THEN /\ modifier' = [entered EXCEPT !.batches = @ + 1]
                /\ UNCHANGED quantized_module
           ELSE LET out == compress_module(quantized_module, modifier.batches + 1)
                IN  /\ quantized_module' = out.module
                    /\ modifier' =
                          IF out.raised = "none"
                          THEN [entered EXCEPT !.batches = @ + 1, !.calls = @ + 1]
                          ELSE [entered EXCEPT !.calls = @ + 1,
                                               !.pc = "error",
                                               !.err = out.raised,
                                               !.hooks = finally_pass(@)]
    /\ UNCHANGED nonModifierVars

\* self.remove_hooks()
modifier_remove_hooks ==
    /\ modifier.pc = "remove_hooks"
    /\ modifier' = [modifier EXCEPT !.pc = "finish_compression", !.hooks = FALSE,
                                    !.log = Append(@, "remove_hooks")]
    /\ UNCHANGED quantized_module
    /\ UNCHANGED nonModifierVars

\* finish_compression for the modules that have a weight scheme
finish_compression ==
    /\ modifier.pc = "finish_compression"
    /\ modifier' = [modifier EXCEPT !.pc = "freeze",
                                    !.log = Append(@, "finish_compression")]
    /\ quantized_module' =
          IF ~quantized_module.has_scheme THEN quantized_module
          ELSE LET weight == IF modifier.batch_size # -1
                             THEN Averaged(quantized_module.weight_acc,
                                           modifier.num_batches)
                             ELSE quantized_module.weight
               IN  [quantized_module EXCEPT
                       !.has_weight_acc = IF modifier.batch_size # -1 THEN FALSE ELSE @,
                       !.weight_acc = IF modifier.batch_size # -1 THEN <<>> ELSE @,
                       !.weight = fake_quantize(weight),
                       !.qparams = <<weight>>]
    /\ UNCHANGED nonModifierVars

\* state.model.apply(freeze_module_quantization); return True
freeze_module_quantization ==
    /\ modifier.pc = "freeze"
    /\ modifier' = [modifier EXCEPT !.pc = "done", !.log = Append(@, "freeze")]
    /\ quantized_module' = [quantized_module EXCEPT !.frozen = TRUE]
    /\ UNCHANGED nonModifierVars

\* ---------------------------------------------------------- specifications
GraphInit ==
    /\ \E g \in GraphsOfSize(MaxNodes) : graph = WithUsers(g)
    /\ variant \in Variants
    /\ pc = "init"
    /\ err = "none"
    /\ partitions = <<>>
    /\ remaining_indegrees = [n \in Nodes |-> 0]
    /\ partition_index = 0
    /\ queue = <<>>
    /\ dequeued = <<>>
    /\ subgraphs = <<>>
    /\ mode = "none"
    /\ num_batches = 0
    /\ subgraph_index = 0
    /\ batch_index = 0
    /\ batch_intermediates = <<>>
    /\ batch_outputs = <<>>
    /\ executed = <<>>
    /\ deleted = <<>>
    /\ dataloader = NoSamples

\* no graph is being partitioned
GraphIdle ==
    /\ graph = <<>>
    /\ variant = "partitioned_model"
    /\ pc = "idle"
    /\ err = "none"
    /\ partitions = <<>>
    /\ remaining_indegrees = <<>>
    /\ partition_index = 0
    /\ queue = <<>>
    /\ dequeued = <<>>
    /\ subgraphs = <<>>
    /\ mode = "none"
    /\ num_batches = 0
    /\ subgraph_index = 0
    /\ batch_index = 0
    /\ batch_intermediates = <<>>
    /\ batch_outputs = <<>>
    /\ executed = <<>>
    /\ deleted = <<>>
    /\ dataloader = NoSamples

\* GPTQWrapper.__init__: H = zeros((columns, columns)), nsamples = 0
HessianInit ==
    /\ H = [num |-> [e \in Entries |-> 0], den |-> 1]
    /\ nsamples = 0
    /\ observed = [e \in Entries |-> 0]
    /\ batch_sizes = <<>>

\* LayerCompressor.__init__: modules = {}, handles = []; a layer's module
\* carries quantization arguments or none
LayerInit ==
    /\ modules = "empty"
    /\ wrappers \in [ModuleNames ->
                        [created : {FALSE}, wrapped : {FALSE}, has_H : {FALSE},
                         nsamples : {0}, quantizing : {FALSE}, replaced : {FALSE},
                         quant_args : {"None", "weights"}]]
    /\ handles = {}
    /\ lc_pc = "idle"
    /\ lc_err = "none"
    /\ to_compress = <<>>
    /\ lc_calls = 0
    /\ lifecycle = [m \in ModuleNames |-> <<>>]
    /\ early_stop_handle = 0
    /\ early_stop_hooks = {}

\* no LayerCompressor is running
LayerIdle ==
    /\ modules = "empty"
    /\ wrappers = <<>>
    /\ handles = {}
    /\ lc_pc = "off"
    /\ lc_err = "none"
    /\ to_compress = <<>>
    /\ lc_calls = 0
    /\ lifecycle = <<>>
    /\ early_stop_handle = 0
    /\ early_stop_hooks = {}

\* no SequentialLayerCompressor is running
QuantizerIdle ==
    /\ call = <<>>
    /\ q_pc = [at |-> "off", i1 |-> 0, i |-> 0]
    /\ q_err = [type |-> "none", cause |-> "none", guidance |-> FALSE]
    /\ qH = <<>>
    /\ Hinv = <<>>
    /\ W = <<>>
    /\ dead = {}
    /\ perm = <<>>
    /\ g_idx = <<>>
    /\ scale = <<>>
    /\ layer = <<>>
    /\ result = <<>>
    /\ blocks = <<>>
    /\ W_nz_mask = <<>>

SequentialIdle ==
    /\ true_sequential = FALSE
    /\ HOOKS_DISABLED = FALSE
    /\ hooked = FALSE
    /\ layer_index = 0
    /\ seq_pc = [at |-> "off", i |-> 0, rerun |-> FALSE]
    /\ weight_version = <<>>
    /\ module_outputs = <<>>
    /\ output = <<>>
    /\ compressed_output = <<>>
    /\ returned = <<>>
    /\ events = <<>>
    /\ forward_calls = 0
    /\ contexts = 0

\* a modifier whose structure is initialized, a calibration dataset and a
\* model with one Linear module
ModifierInit ==
    /\ modifier \in [pc : {"init"}, err : {"none"}, batch_size : BatchSizes,
                     quantize : BOOLEAN, num_batches : {0}, hooks : {FALSE},
                     dataset : 0..MaxDataset, batches : {0}, calls : {0},
                     log : {<<>>}]
    /\ quantized_module \in [has_scheme : BOOLEAN, weight : {OriginalWeight},
                             has_weight_acc : {FALSE}, weight_acc : {<<>>},
                             qparams : {<<>>}, frozen : {FALSE}]

\* no GPTQModifier is running
ModifierIdle ==
    /\ modifier = <<>>
    /\ quantized_module = <<>>

Init ==
    GraphInit /\ HessianInit /\ LayerIdle /\ SequentialIdle /\ QuantizerIdle
    /\ ModifierIdle

Next ==
    \/ TopologicalPartitionBegin
    \/ Dequeue
    \/ ReattachGetAttr
    \/ TopologicalPartitionReturn
    \/ PartitionGraph
    \/ ForwardBegin
    \/ ForwardStep
    \/ ForwardDataBegin
    \/ ForwardDataStep

\* partitioning and replay of a traced graph
Spec == Init /\ [][Next]_vars

\* a traced graph in which one user entry may have been added or removed by
\* hand (node.users is a public dict)
TamperedUsers(g) ==
    {g} \cup {[g EXCEPT ![n].users = IF u \in @ THEN @ \ {u} ELSE @ \cup {u}] :
                 <<n, u>> \in {p \in Nodes \X Nodes : p[1] < p[2]}}

InitTampered ==
    /\ \E g \in GraphsOfSize(MaxNodes) : graph \in TamperedUsers(WithUsers(g))
    /\ variant \in Variants
    /\ pc = "init"
    /\ err = "none"
    /\ partitions = <<>>
    /\ remaining_indegrees = [n \in Nodes |-> 0]
    /\ partition_index = 0
    /\ queue = <<>>
    /\ dequeued = <<>>
    /\ subgraphs = <<>>
    /\ mode = "none"
    /\ num_batches = 0
    /\ subgraph_index = 0
    /\ batch_index = 0
    /\ batch_intermediates = <<>>
    /\ batch_outputs = <<>>
    /\ executed = <<>>
    /\ deleted = <<>>
    /\ dataloader = NoSamples
    /\ HessianInit
    /\ LayerIdle
    /\ SequentialIdle
    /\ QuantizerIdle
    /\ ModifierIdle

\* partitioning and replay of a graph whose edge bookkeeping may be broken
SpecAssumption == InitTampered /\ [][Next]_vars

\* a graph rewritten by hand so that one call also takes itself or a later
\* node as an argument (Node.update_arg keeps users in step, so
\* check_assumption holds); the new edge closes a cycle when that node is the
\* call or depends on it
Rewired(g) ==
    {g} \cup {[g EXCEPT ![e[2]].all_input_nodes = @ \cup {e[1]}] :
                 e \in {p \in Nodes \X Nodes :
                           /\ p[2] <= p[1]
                           /\ p[1] # OutputNode
                           /\ g[p[2]].op \in {"call_function", "call_module"}}}

InitRewired ==
    /\ \E g \in GraphsOfSize(MaxNodes) : \E h \in Rewired(g) : graph = WithUsers(h)
    /\ variant \in Variants
    /\ pc = "init"
    /\ err = "none"
    /\ partitions = <<>>
    /\ remaining_indegrees = [n \in Nodes |-> 0]
    /\ partition_index = 0
    /\ queue = <<>>
    /\ dequeued = <<>>
    /\ subgraphs = <<>>
    /\ mode = "none"
    /\ num_batches = 0
    /\ subgraph_index = 0
    /\ batch_index = 0
    /\ batch_intermediates = <<>>
    /\ batch_outputs = <<>>
    /\ executed = <<>>
    /\ deleted = <<>>
    /\ dataloader = NoSamples
    /\ HessianInit
    /\ LayerIdle
    /\ SequentialIdle
    /\ QuantizerIdle
    /\ ModifierIdle

NextPartition ==
    \/ TopologicalPartitionBegin
    \/ Dequeue
    \/ ReattachGetAttr
    \/ TopologicalPartitionReturn

\* topological_partition on a graph that may hold a cycle
SpecCyclic == InitRewired /\ [][NextPartition]_vars

InitHessian ==
    GraphIdle /\ HessianInit /\ LayerIdle /\ SequentialIdle /\ QuantizerIdle
    /\ ModifierIdle

NextHessian == AddBatch

SequentialInit ==
    /\ true_sequential \in BOOLEAN
    /\ HOOKS_DISABLED = FALSE
    /\ hooked = FALSE
    /\ layer_index = 0
    /\ seq_pc = SeqAt("idle", 0, FALSE)
    /\ weight_version = [m \in SeqToSet(QuantizedModules) |-> 0]
    /\ module_outputs = <<>>
    /\ output = <<>>
    /\ compressed_output = <<>>
    /\ returned = <<>>
    /\ events = <<>>
    /\ forward_calls = 0
    /\ contexts = 0

InitSequential ==
    GraphIdle /\ HessianInit /\ LayerIdle /\ SequentialInit /\ QuantizerIdle
    /\ ModifierIdle

NextSequential ==
    \/ register_hooks
    \/ remove_hooks
    \/ layer_pre_forward
    \/ target_pre_forward
    \/ module_forward
    \/ target_post_forward
    \/ layer_post_forward
    \/ layer_rerun_return
    \/ disable_hooks_enter
    \/ disable_hooks_exit

\* one SequentialLayerCompressor hooked on a layer of the model
SpecSequential == InitSequential /\ [][NextSequential]_vars

QuantizerInit ==
    /\ call \in Calls
    /\ q_pc = QAt("begin", 0, 0)
    /\ q_err = [type |-> "none", cause |-> "none", guidance |-> FALSE]
    /\ \E inp \in QInputs : qH = compute_hessian(inp)
    /\ Hinv = <<>>
    /\ W = InitialLayer.weight
    /\ dead = {}
    /\ perm = <<>>
    /\ g_idx = <<>>
    /\ scale = <<>>
    /\ layer = InitialLayer
    /\ result = <<>>
    /\ blocks = <<>>
    /\ W_nz_mask = <<>>

InitQuantizer ==
    GraphIdle /\ HessianInit /\ LayerIdle /\ SequentialIdle /\ QuantizerInit
    /\ ModifierIdle

NextQuantizer ==
    \/ apply_activation_ordering
    \/ mask_dead
    \/ invert_hessian
    \/ quantize_column
    \/ finish
    \/ free

\* one call of a quantizer entry point on one module
SpecQuantizer == InitQuantizer /\ [][NextQuantizer]_vars

\* Hessian accumulation of one wrapped module
SpecHessian == InitHessian /\ [][NextHessian]_vars

InitLayer ==
    GraphIdle /\ HessianInit /\ LayerInit /\ SequentialIdle /\ QuantizerIdle
    /\ ModifierIdle

NextLayer ==
    \/ pre_compress
    \/ calibrate
    \/ compress
    \/ module_compress
    \/ module_free
    \/ post_compress
    \/ revert_layer_wrappers
    \/ set_early_stop
    \/ clear_early_stop

\* one LayerCompressor and the wrappers of its layer
SpecLayer == InitLayer /\ [][NextLayer]_vars

InitModifier ==
    GraphIdle /\ HessianInit /\ LayerIdle /\ SequentialIdle /\ QuantizerIdle
    /\ ModifierInit

NextModifier ==
    \/ on_initialize
    \/ modifier_register_hooks
    \/ pre_compress_module
    \/ calibration_forward
    \/ modifier_remove_hooks
    \/ finish_compression
    \/ freeze_module_quantization

\* one GPTQModifier.on_initialize run
SpecModifier == InitModifier /\ [][NextModifier]_vars

\* ------------------------------------------------------ claims: definitions
\* topological_partition has returned its partition list
PartitionsReturned ==
    \/ pc \in {"partitioned", "built", "forward", "forward_data", "done"}
    \/ pc = "error" /\ err = "KeyError"

SubgraphsBuilt == PartitionsReturned /\ subgraphs # <<>>

TargetNodes == {n \in Nodes : graph[n].op = "call_module"}

\* 1-based position of the partition holding node n, and n's place in it
PartitionOf(n) == CHOOSE k \in DOMAIN partitions : n \in SeqToSet(partitions[k])

PlaceOf(n) == CHOOSE i \in DOMAIN partitions[PartitionOf(n)] :
                  partitions[PartitionOf(n)][i] = n

AllInputNames == UNION {subgraphs[k].input_names : k \in DOMAIN subgraphs}

\* 0-based index of the last subgraph that declares `name` in input_names
LastDeclaring(name) ==
    CHOOSE k \in 0..(Len(subgraphs) - 1) :
        /\ name \in subgraphs[k + 1].input_names
        /\ \A j \in (k + 1)..(Len(subgraphs) - 1) : name \notin subgraphs[j + 1].input_names

DeletionsOf(batch, name) ==
    {i \in DOMAIN deleted : deleted[i][1] = batch /\ deleted[i][3] = name}

\* samples whose executor run has completed
CompletedSamples ==
    IF mode = "forward" THEN 0..(Len(batch_outputs) - 1)
    ELSE IF mode = "forward_data" /\ pc = "done" THEN 0..(num_batches - 1)
    ELSE {}

\* C1: PartitionedModel.forward / HookedModel.forward returns, for every
\* acyclic graph, target set and sample, exactly the value the output node has
\* when the unpartitioned graph is executed directly.
C1_ForwardEqualsDirect ==
    mode = "forward" =>
        /\ pc # "error"
        /\ \A i \in DOMAIN batch_outputs :
              /\ batch_outputs[i].kind = "output"
              /\ batch_outputs[i].value = DirectValue(OutputNode, i - 1)

\* C2: when forward or forward_data is about to execute subgraph k, every name
\* of its input_names is in the sample's intermediates cache (no missing key).
C2_InputsPresent ==
    pc \in {"forward", "forward_data"} =>
        subgraphs[subgraph_index + 1].input_names
            \subseteq DOMAIN batch_intermediates[batch_index]

\* C3 (as claimed): in one executor run over one sample every input name is
\* deleted from the cache exactly once, at the last subgraph declaring it.
C3_DeletedExactlyOnceAtLast ==
    \A batch \in CompletedSamples : \A name \in AllInputNames :
        /\ Cardinality(DeletionsOf(batch, name)) = 1
        /\ \A i \in DeletionsOf(batch, name) : deleted[i][2] = LastDeclaring(name)

\* C3 (amended): a name is deleted at most once per sample and only at the
\* last subgraph declaring it; every executed subgraph that is not the final
\* one (forward) or any executed subgraph (forward_data) deletes the names it
\* is the last to declare; forward never deletes at the final subgraph.
C3_DeletionDiscipline ==
    /\ \A i \in DOMAIN deleted :
          /\ deleted[i][2] = LastDeclaring(deleted[i][3])
          /\ Cardinality(DeletionsOf(deleted[i][1], deleted[i][3])) = 1
    /\ \A e \in DOMAIN executed :
          (mode = "forward_data" \/ executed[e][1] < Len(subgraphs) - 1) =>
              \A name \in AllInputNames :
                  LastDeclaring(name) = executed[e][1] =>
                      DeletionsOf(executed[e][2], name) # {}
    /\ mode = "forward" =>
          \A i \in DOMAIN deleted : deleted[i][2] # Len(subgraphs) - 1

\* a forward call has returned after deleting a name at an earlier subgraph
\* while a name last declared by the final subgraph stayed in the cache
C3_Witness ==
    /\ mode = "forward"
    /\ Len(batch_outputs) >= 1
    /\ deleted # <<>>
    /\ \E name \in AllInputNames :
          /\ LastDeclaring(name) = Len(subgraphs) - 1
          /\ DeletionsOf(0, name) = {}

\* C4: topological_partition returns, for every acyclic graph and target set,
\* partitions that are pairwise disjoint and whose union is the node set:
\* every node, get_attr nodes included, is in exactly one partition.
C4_EveryNodeInOnePartition ==
    /\ pc = "error" => err = "KeyError"
    /\ PartitionsReturned =>
          \A n \in Nodes :
              Cardinality({<<k, i>> \in (DOMAIN partitions) \X Nodes :
                              i \in DOMAIN partitions[k] /\ partitions[k][i] = n}) = 1

\* C5 (as claimed): every target node is the first node of its partition, and
\* that partition is not partition 0.
C5_TargetIsFirstNode ==
    PartitionsReturned =>
        \A t \in TargetNodes :
            \E k \in 2..Len(partitions) :
                partitions[k] # <<>> /\ partitions[k][1] = t

\* C5 (amended): every target node is in a partition other than partition 0
\* and only re-attached get_attr nodes precede it in that partition's list.
C5_TargetFirstAfterGetAttrs ==
    PartitionsReturned =>
        \A t \in TargetNodes :
            \E k \in 2..Len(partitions) :
                \E i \in DOMAIN partitions[k] :
                    /\ partitions[k][i] = t
                    /\ \A j \in 1..(i - 1) : graph[partitions[k][j]].op = "get_attr"

\* a returned partition list in which a get_attr node precedes the target
C5_Witness ==
    /\ PartitionsReturned
    /\ \E t \in TargetNodes :
          /\ PlaceOf(t) > 1
          /\ graph[partitions[PartitionOf(t)][1]].op = "get_attr"

\* C6: partition 0 holds no target node, every later partition holds exactly
\* one, the number of partitions is the number of target nodes plus one, and
\* partition_graph builds one subgraph per partition, in the same order.
C6_OneTargetPerPartition ==
    /\ PartitionsReturned =>
          /\ Len(partitions) = Cardinality(TargetNodes) + 1
          /\ SeqToSet(partitions[1]) \cap TargetNodes = {}
          /\ \A k \in 2..Len(partitions) :
                Cardinality(SeqToSet(partitions[k]) \cap TargetNodes) = 1
    /\ SubgraphsBuilt =>
          /\ Len(subgraphs) = Len(partitions)
          /\ \A k \in DOMAIN subgraphs : subgraphs[k].nodes = partitions[k]

\* subgraphs built for a graph with at least two target nodes
C6_Witness ==
    /\ SubgraphsBuilt
    /\ Cardinality(TargetNodes) >= 2
    /\ Len(subgraphs) >= 3

\* C7: the partition index is non-decreasing over the dequeue order, and in
\* the returned list every input of a node lies in the same or an earlier
\* partition, before the node when it lies in the same one.
C7_PartitionsRespectDependencies ==
    /\ \A i \in 1..(Len(dequeued) - 1) : dequeued[i][2] <= dequeued[i + 1][2]
    /\ PartitionsReturned =>
          \A n \in Nodes : \A input_node \in graph[n].all_input_nodes :
              /\ PartitionOf(input_node) <= PartitionOf(n)
              /\ PartitionOf(input_node) = PartitionOf(n) =>
                    PlaceOf(input_node) < PlaceOf(n)

\* a returned list with an input in an earlier partition, an input in the
\* same partition, and a get_attr node re-attached after the first partition
C7_Witness ==
    /\ PartitionsReturned
    /\ variant = "partitioned_model"
    /\ \E n \in Nodes : \E i \in graph[n].all_input_nodes :
          PartitionOf(i) < PartitionOf(n)
    /\ \E n \in Nodes : \E i \in graph[n].all_input_nodes :
          /\ graph[i].op = "get_attr"
          /\ PartitionOf(i) = PartitionOf(n)
          /\ PartitionOf(n) > 1

\* C8: forward_data runs subgraph by subgraph: every sample's run of subgraph
\* k completes before any sample's run of subgraph k+1 starts, samples go in
\* dataloader order inside a subgraph, and batch_outputs[i] is the final
\* subgraph's output for sample i.
C8_SubgraphMajorOrder ==
    mode = "forward_data" =>
        /\ \A e \in DOMAIN executed :
              executed[e] = <<(e - 1) \div num_batches, (e - 1) % num_batches>>
        /\ pc = "done" =>
              /\ Len(executed) = num_batches * Len(subgraphs)
              /\ \A b \in 0..(num_batches - 1) :
                    LET out == batch_outputs[b + 1]
                    IN  /\ out.kind # "None"
                        /\ out.kind = "output" =>
                              out.value = DirectValue(OutputNode, b)
                        /\ out.kind = "dict" =>
                              \A name \in DOMAIN out.value :
                                  out.value[name] = DirectValue(name, b)

\* forward_data has returned after running several subgraphs over several
\* samples
C8_Witness ==
    /\ mode = "forward_data"
    /\ pc = "done"
    /\ num_batches >= 2
    /\ Len(subgraphs) >= 2
    /\ batch_outputs[2].kind = "output"

\* total number of samples in the batches passed so far
RECURSIVE TotalSamples(_)
TotalSamples(sizes) ==
    IF sizes = <<>> THEN 0 ELSE Head(sizes) + TotalSamples(Tail(sizes))

\* C9: after every add_batch call, whatever the split into batches, nsamples
\* is the number of samples seen and nsamples * H = 2 * (sum of x * x^T over
\* all observed positions) in exact arithmetic, so H and nsamples depend on the
\* samples only and not on how they were batched.
C9_HessianIndependentOfSplit ==
    /\ nsamples = TotalSamples(batch_sizes)
    /\ H.den > 0
    /\ \A e \in Entries : nsamples * H.num[e] = 2 * observed[e] * H.den

\* a batch of one sample followed by a batch of two, with correlated columns
C9_Witness ==
    /\ batch_sizes = <<1, 2>>
    /\ observed[<<1, 2>>] = 2
    /\ observed[<<1, 1>>] = 4
    /\ H.den = 3

\* position of a lifecycle event in UNREGISTERED -> ACCUMULATING ->
\* QUANTIZING -> REPLACED -> FREED
Rank(event) ==
    CASE event = "wrap" -> 0
      [] event = "add_batch" -> 1
      [] event = "compress" -> 2
      [] event = "replace" -> 3
      [] event = "free" -> 4

Occurrences(log, event) == Cardinality({i \in DOMAIN log : log[i] = event})

\* the lifecycle state the events of a log lead to
StateAfter(log) ==
    IF log = <<>> THEN "UNREGISTERED"
    ELSE CASE log[Len(log)] \in {"wrap", "add_batch"} -> "ACCUMULATING"
           [] log[Len(log)] = "compress" -> "QUANTIZING"
           [] log[Len(log)] = "replace" -> "REPLACED"
           [] log[Len(log)] = "free" -> "FREED"

C20_ConsumedByLastDeclaringOnly ==
    SubgraphsBuilt =>
        /\ \A name \in AllInputNames :
              {k \in DOMAIN subgraphs : name \in subgraphs[k].consumed_names}
                  = {LastDeclaring(name) + 1}
        /\ \A k \in DOMAIN subgraphs :
              subgraphs[k].consumed_names \subseteq subgraphs[k].input_names
        /\ \A j, k \in DOMAIN subgraphs :
              j # k => subgraphs[j].consumed_names \cap subgraphs[k].consumed_names = {}

\* a name taken by two subgraphs and consumed by the later one only, while
\* the earlier subgraph consumes another name
C20_Witness ==
    /\ SubgraphsBuilt
    /\ \E name \in AllInputNames : \E j, k \in DOMAIN subgraphs :
          /\ j < k
          /\ name \in subgraphs[j].input_names \cap subgraphs[k].input_names
          /\ name \in subgraphs[k].consumed_names
          /\ name \notin subgraphs[j].consumed_names
          /\ subgraphs[j].consumed_names # {}

\* every user edge of g has the matching input edge inside g, and vice versa
EdgeSymmetric(g) ==
    \A n \in DOMAIN g :
        /\ g[n].users \subseteq DOMAIN g
        /\ g[n].all_input_nodes \subseteq DOMAIN g
        /\ \A m \in DOMAIN g : (m \in g[n].users) <=> (n \in g[m].all_input_nodes)

\* C18: topological_partition fails its assertion, before any node is
\* assigned, on a graph that violates the edge assumption; and every subgraph
\* partition_graph builds from a graph that satisfies it satisfies it too, so
\* the assertion after each subgraph never fails.
C18_AssumptionCheckedBeforeAndAfter ==
    /\ ~EdgeSymmetric(graph) =>
          /\ pc \in {"init", "error"}
          /\ pc = "error" => err = "AssertionError"
          /\ partitions = <<>>
          /\ dequeued = <<>>
          /\ subgraphs = <<>>
    /\ EdgeSymmetric(graph) =>
          /\ ~(pc = "error" /\ err = "AssertionError")
          /\ \A k \in DOMAIN subgraphs : EdgeSymmetric(subgraphs[k].graph)

\* topological_partition has failed its assertion on a graph in which a node
\* misses one of its users
C18_Witness ==
    /\ pc = "error"
    /\ err = "AssertionError"
    /\ \E n, u \in Nodes : n \in graph[u].all_input_nodes /\ u \notin graph[n].users

CompressEvents(m, c) ==
    {k \in DOMAIN events : /\ events[k].ev = "compress_fn"
                           /\ events[k].module = m
                           /\ events[k].call = c}

PostHookDone(f) ==
    \E p \in DOMAIN events : /\ p > f
                             /\ events[p].ev = "post"
                             /\ events[p].enabled
                             /\ events[p].module = events[f].module
                             /\ events[p].call = events[f].call

C14_HandsOnCompressedOutput ==
    \A r \in DOMAIN returned :
        (~true_sequential /\ returned[r].hook_ran) =>
            returned[r].out = returned[r].compressed_output

Supported == {"tensor", "channel", "group"}

\* C11: GPTQModifier.compress_module, calling quantize_weight without
\* weight_original, completes for a supported strategy and returns the loss:
\* the only error it can end in is the failed factorization of the Hessian.
C11_CompressModuleCompletes ==
    (/\ q_pc.at = "error"
     /\ call.entry = "compress_module"
     /\ call.strategy \in Supported) => q_err.cause = "cholesky"

\* C12: whenever the factorization of the damped Hessian fails, the error
\* that reaches the caller of either entry point carries the remediation
\* guidance.
C12_FactorizationFailureCarriesGuidance ==
    (q_pc.at = "error" /\ q_err.cause = "cholesky") => q_err.guidance

\* the weight the call hands back: module.weight for GPTQWrapper.compress,
\* the returned quantized_weight for quantize_weight
FinalWeight == IF call.entry = "GPTQWrapper.compress" THEN layer.weight ELSE result.W

\* the group-index vector the call hands back
FinalGroups ==
    IF call.entry = "GPTQWrapper.compress" THEN layer.weight_g_idx ELSE result.g_idx

Completed == q_pc.at \in {"done", "freed"}

\* C15: with the group strategy and the order-by-weight activation ordering,
\* whatever permutation the Hessian diagonal induces, the un-permuted weight
\* holds every quantized column at its original index, quantized with the
\* scale of group c // group_size, and a returned group-index vector maps
\* every column c to c // group_size.
C15_WeightOrderingRestoresColumns ==
    (Completed /\ call.strategy = "group" /\ call.actorder = "weight") =>
        \A c \in ColumnIndex :
            /\ FinalWeight[c].origin = c
            /\ FinalWeight[c].quantized
            /\ FinalWeight[c].group = c \div call.group_size
            /\ FinalGroups # None => FinalGroups[c] = c \div call.group_size

C15_Witness ==
    /\ Completed
    /\ call.strategy = "group"
    /\ call.actorder = "weight"
    /\ call.entry = "quantize_weight"
    /\ perm # [c \in ColumnIndex |-> c]
    /\ \E c \in ColumnIndex : perm[perm[c]] # c
    /\ \E a, b \in ColumnIndex : a # b /\ qH.num[<<a, a>>] = qH.num[<<b, b>>]

\* C16: quantize_weight returns a group-index vector only when the strategy
\* is group, an activation ordering is enabled and the column-to-group
\* mapping differs from column // group_size; otherwise it returns None.
C16_GroupIndexOnlyWhenNotDefault ==
    (q_pc.at = "done" /\ call.entry = "quantize_weight" /\ result.g_idx # None) =>
        /\ call.strategy = "group"
        /\ call.actorder # "none"
        /\ result.g_idx # DefaultGroups(call.group_size)

\* the step of the call that masks the dead columns leaves every entry of H
\* but the dead diagonal entries, and every column of W but the dead ones, as
\* they were; a dead diagonal entry becomes 1 and a dead column zero
MaskingFrame ==
    (q_pc.at = "mask" /\ q_pc'.at = "invert") =>
        /\ \A e \in QEntries :
               IF e[1] = e[2] /\ qH.num[e] = 0
               THEN qH'.num[e] = qH'.den
               ELSE qH'.num[e] = qH.num[e]
        /\ qH'.den = qH.den
        /\ \A c \in ColumnIndex :
               IF qH.num[<<c, c>>] = 0
               THEN W'[c] = [W[c] EXCEPT !.zero = TRUE]
               ELSE W'[c] = W[c]

\* the original column that stands at position c of the working weight
OriginAt(c) ==
    IF call.strategy = "group" /\ call.actorder # "none" THEN perm[c] ELSE c

DeadReturnedZero ==
    Completed =>
        \A c \in dead : /\ FinalWeight[OriginAt(c)].origin = OriginAt(c)
                        /\ FinalWeight[OriginAt(c)].zero
                        /\ FinalWeight[OriginAt(c)].absorbed = {}

\* C17: dead-column masking changes only the dead columns (diagonal entry to
\* 1, weight column to zero), leaves every other entry of H and column of W
\* unchanged, and the dead column is at its position and zero in the returned
\* weight.
C17_MaskingChangesOnlyDeadColumns == [][MaskingFrame]_vars /\ []DeadReturnedZero

C17_Witness ==
    /\ Completed
    /\ dead # {}
    /\ dead # ColumnIndex
    /\ \E c \in ColumnIndex \ dead : FinalWeight[OriginAt(c)].absorbed # {}

Fatal == q_pc.at = "error" /\ q_err.cause \in {"strategy", "cholesky"}

\* C19: when the quantizer raises for an unsupported strategy or a failed
\* factorization, the module's weight, scale and zero point hold the values
\* they had before the call, and the call is neither retried nor followed by
\* free(): nothing happens to the module after the error.
C19_FatalErrorLeavesParameters ==
    /\ [](Fatal => layer = InitialLayer /\ result = None)
    /\ [][Fatal => UNCHANGED quantizerVars]_vars

C19_Witness ==
    /\ Fatal
    /\ call.entry = "GPTQWrapper.compress"
    /\ scale # None
    /\ dead # {}

\* C21: the subgraph of every partition k declares one input placeholder for
\* each distinct node outside k that a node of k reads, and, when k does not
\* hold the original output node, its synthesized output exposes exactly the
\* nodes of k with a user outside k, which are exactly the nodes that a later
\* partition consumes.
C21_SubgraphInterface ==
    SubgraphsBuilt =>
        \A k \in DOMAIN subgraphs :
            LET inside == SeqToSet(partitions[k])
                read_outside == {n \in Nodes \ inside :
                                    \E m \in inside : n \in graph[m].all_input_nodes}
                declared == {n \in DOMAIN subgraphs[k].graph :
                                subgraphs[k].graph[n].op = "placeholder"}
                used_outside == {n \in inside : \E u \in graph[n].users : u \notin inside}
                consumed_later ==
                    {n \in inside :
                        \E j \in DOMAIN partitions :
                            /\ j > k
                            /\ \E u \in SeqToSet(partitions[j]) :
                                   n \in graph[u].all_input_nodes}
            IN  /\ declared \ inside = read_outside
                /\ subgraphs[k].input_names = declared
                /\ ~subgraphs[k].has_output =>
                       /\ subgraphs[k].output_names = used_outside
                       /\ subgraphs[k].graph[SynthesizedOutput].all_input_nodes
                              = used_outside
                       /\ used_outside = consumed_later

C21_Witness ==
    /\ SubgraphsBuilt
    /\ \E k \in DOMAIN subgraphs :
           /\ ~subgraphs[k].has_output
           /\ subgraphs[k].output_names # {}
           /\ subgraphs[k].output_names # SeqToSet(partitions[k])
    /\ \E k \in DOMAIN subgraphs :
           \E n \in subgraphs[k].input_names :
               /\ n \notin SeqToSet(partitions[k])
               /\ Cardinality({m \in SeqToSet(partitions[k]) :
                                   n \in graph[m].all_input_nodes}) > 1

Dequeued == {dequeued[i][1] : i \in DOMAIN dequeued}

OutputKeys(k) ==
    IF subgraphs[k + 1].has_output THEN {OutputKey} ELSE subgraphs[k + 1].output_names

\* names in one sample's cache after the first k subgraphs ran under forward:
\* merge the outputs, then delete the consumed names
RECURSIVE NamesAfterForward(_)
NamesAfterForward(k) ==
    IF k = 0 THEN {n \in Nodes : graph[n].op = "placeholder"}
    ELSE (NamesAfterForward(k - 1) \cup OutputKeys(k - 1))
             \ subgraphs[k].consumed_names

\* the same under forward_data: delete the consumed names, then merge
RECURSIVE NamesAfterForwardData(_)
NamesAfterForwardData(k) ==
    IF k = 0 THEN {n \in Nodes : graph[n].op = "placeholder"}
    ELSE (NamesAfterForwardData(k - 1) \ subgraphs[k].consumed_names)
             \cup OutputKeys(k - 1)

\* number of subgraphs forward_data has run on sample b
RanOn(b) == subgraph_index + (IF b < batch_index THEN 1 ELSE 0)

\* C23: no subgraph both consumes and outputs a name, so after every
\* non-final subgraph the names in a sample's cache under forward are the
\* names delete-then-merge (forward_data) leaves, and the names under
\* forward_data are the names merge-then-delete (forward) leaves.
C23_ExecutorsAgreeOnCacheNames ==
    SubgraphsBuilt =>
        /\ \A k \in 0..(Len(subgraphs) - 1) :
              subgraphs[k + 1].consumed_names \cap OutputKeys(k) = {}
        /\ (mode = "forward" /\ pc = "forward") =>
              DOMAIN batch_intermediates[batch_index]
                  = NamesAfterForwardData(subgraph_index)
        /\ (mode = "forward_data" /\ pc = "forward_data") =>
              \A b \in 0..(num_batches - 1) :
                  RanOn(b) < Len(subgraphs) =>
                      DOMAIN batch_intermediates[b] = NamesAfterForward(RanOn(b))

\* forward has run two non-final subgraphs on a sample, deleting a name at
\* one of them and merging outputs at both
C23_Witness ==
    /\ SubgraphsBuilt
    /\ mode = "forward"
    /\ pc = "forward"
    /\ subgraph_index = 2
    /\ \E k \in 1..2 :
          /\ subgraphs[k].consumed_names # {}
          /\ OutputKeys(k - 1) # {}
    /\ DOMAIN batch_intermediates[batch_index] # NamesAfterForwardData(0)

\* number of columns the block loop has passed
ColumnsDone == IF q_pc.at = "loop" THEN q_pc.i1 + q_pc.i ELSE num_columns

\* C24: the blocks are [0, b), [b, 2b), ... up to the last column, the columns
\* are quantized in increasing index order, each once, and a step of the loop
\* leaves every column quantized before it as it is.
C24_BlocksCoverColumnsInOrder ==
    /\ [](q_pc.at \in {"loop", "finish"} =>
            /\ {c \in ColumnIndex : W[c].quantized} = 0..(ColumnsDone - 1)
            /\ blocks = [k \in 1..Len(blocks) |->
                            <<(k - 1) * call.blocksize,
                              Min(k * call.blocksize, num_columns)>>]
            /\ q_pc.at = "loop" =>
                  /\ q_pc.i1 = blocks[Len(blocks)][1]
                  /\ ColumnsDone < blocks[Len(blocks)][2]
            /\ q_pc.at = "finish" => blocks[Len(blocks)][2] = num_columns)
    /\ [][q_pc.at = "loop" =>
            \A c \in ColumnIndex : c < ColumnsDone => W'[c] = W[c]]_vars

\* the loop ended after a full block and a shorter last one, and the last
\* block's column took the error of a column of the first block
C24_Witness ==
    /\ q_pc.at = "finish"
    /\ blocks = <<<<0, 3>>, <<3, 4>>>>
    /\ \E c \in 0..2 : W[c].origin \in W[3].absorbed
    /\ \A c \in ColumnIndex : W[c].quantized

\* C25: the error and the loss of every column the loop has quantized were
\* computed with `w` being that same column of the weight: the column at the
\* working index i1 + i.
C25_ErrorFromSameColumn ==
    q_pc.at \in {"loop", "finish"} =>
        \A c \in ColumnIndex : W[c].quantized => W[c].w = W[c].origin

\* the call has passed the activation ordering and has not raised or returned
Ordered == q_pc.at \in {"mask", "invert", "loop", "finish"}

\* C26: under ActivationOrdering.GROUP the observer sees the permuted weight
\* (the scale of group g is that of the columns standing at the positions of
\* g), H is permuted with W and g_idx is the default mapping throughout the
\* loop; under ActivationOrdering.WEIGHT the observer sees the unpermuted
\* weight, W and g_idx are permuted by the same permutation, and every column
\* is quantized with the scale of the group of its original index.
C26_OrderingOfObserverAndPermutation ==
    (Ordered /\ call.strategy = "group" /\ call.actorder # "none") =>
        /\ \A c \in ColumnIndex : W[c].origin = perm[c]
        /\ q_pc.at = "mask" =>
              \A c \in ColumnIndex \ {num_columns - 1} :
                  qH.num[<<c, c>>] >= qH.num[<<c + 1, c + 1>>]
        /\ call.actorder = "group" =>
              /\ g_idx = DefaultGroups(call.group_size)
              /\ \A g \in DOMAIN scale :
                    scale[g].cols = {perm[c] : c \in {c \in ColumnIndex :
                                                        c \div call.group_size = g}}
              /\ \A c \in ColumnIndex :
                    W[c].quantized => W[c].group = c \div call.group_size
        /\ call.actorder = "weight" =>
              /\ g_idx = [c \in ColumnIndex |-> perm[c] \div call.group_size]
              /\ \A g \in DOMAIN scale :
                    /\ scale[g].cols = {c \in ColumnIndex : c \div call.group_size = g}
                    /\ ~scale[g].refreshed
              /\ \A c \in ColumnIndex :
                    W[c].quantized =>
                        /\ W[c].group = W[c].origin \div call.group_size
                        /\ W[c].origin \in scale[W[c].group].cols

\* order-by-weight: every column quantized, one of them moved to a position of
\* another group
C26_Witness ==
    /\ q_pc.at = "finish"
    /\ call.strategy = "group"
    /\ call.actorder = "weight"
    /\ call.entry = "GPTQWrapper.compress"
    /\ \E c \in ColumnIndex :
          /\ W[c].quantized
          /\ W[c].origin \div call.group_size # c \div call.group_size

\* W' and qH' are W and qH permuted by perm', which sorts the diagonal of qH
PermutedBySorting ==
    /\ DOMAIN perm' = ColumnIndex
    /\ \A a, b \in ColumnIndex : a # b => perm'[a] # perm'[b]
    /\ \A c \in ColumnIndex \ {num_columns - 1} :
          qH.num[<<perm'[c], perm'[c]>>] >= qH.num[<<perm'[c + 1], perm'[c + 1]>>]
    /\ \A c \in ColumnIndex : W'[c] = W[perm'[c]]
    /\ \A a, b \in ColumnIndex : qH'.num[<<a, b>>] = qH.num[<<perm'[a], perm'[b]>>]

\* C27: whenever an activation ordering is enabled, the step
\* before the block loop permutes the columns of W and the rows and columns of
\* H by the permutation that sorts the Hessian diagonal in descending order,
\* whatever the strategy.
C27_OrderingPermutesWhateverStrategy ==
    [][(q_pc.at = "begin" /\ call.actorder # "none") => PermutedBySorting]_vars

\* C28: with sparsity preservation active the mask marks the entries that
\* were zero when it was taken, and such an entry takes no correction, inside
\* a block or after it: it is still zero when it is quantized; every other
\* entry, and with preservation inactive every entry, has taken the
\* correction of every column to its left when the loop ends.
C28_MaskedEntriesTakeNoCorrection ==
    /\ q_pc.at \in {"invert", "loop", "finish"} =>
          /\ (W_nz_mask # None) = (Cardinality(call.zeros) >= SPARSITY_THRESHOLD)
          /\ W_nz_mask # None =>
                \A c \in ColumnIndex :
                    /\ W_nz_mask[c] = (W[c].origin \notin call.zeros)
                    /\ ~W_nz_mask[c] => W[c].zero /\ W[c].absorbed = {}
    /\ q_pc.at = "finish" =>
          \A c \in ColumnIndex :
              (W_nz_mask = None \/ W_nz_mask[c]) =>
                  \A k \in 0..(c - 1) :
                      (Hinv[<<k, c>>] /\ W[k].err = "nonzero") =>
                          /\ W[k].origin \in W[c].absorbed
                          /\ ~W[c].zero

\* preservation active at the end of the loop: a zero entry to the right of a
\* column whose error reaches its position, and a non-zero entry corrected
C28_Witness ==
    /\ q_pc.at = "finish"
    /\ W_nz_mask # None
    /\ \E c \in ColumnIndex : \E k \in 0..(c - 1) :
          /\ ~W_nz_mask[c]
          /\ Hinv[<<k, c>>]
          /\ W[k].err = "nonzero"
    /\ \E c \in ColumnIndex : W_nz_mask[c] /\ W[c].absorbed # {}

\* layer forward calls that ended with the body of layer_post_forward run
HookedForwards == {r \in DOMAIN returned : returned[r].hook_ran}

C30_OneFlagClearedOnEveryExit ==
    /\ [](\A e \in DOMAIN events : events[e].rerun => ~events[e].other_hook)
    /\ [][/\ contexts' > contexts => HOOKS_DISABLED'
          /\ contexts' < contexts => ~HOOKS_DISABLED']_vars

\* an enclosing context is still active with the flag cleared, after a re-run
\* of this compressor during which another instance's hook was called
C30_Witness ==
    /\ contexts = 1
    /\ ~HOOKS_DISABLED
    /\ seq_pc.at = "idle"
    /\ \E e \in DOMAIN events : events[e].rerun /\ ~events[e].other_hook
    /\ \E e \in DOMAIN events : ~events[e].rerun /\ events[e].other_hook

\* get_attr nodes without users
DeadGetAttrs == {n \in Nodes : graph[n].op = "get_attr" /\ graph[n].users = {}}

\* C35: on a graph with a get_attr node that has no users,
\* partitioned_model.py's topological_partition returns no partition list:
\* the only way it ends is the ValueError of min() over the empty list of user
\* partitions, and the node is in no partition.
C35_DeadGetAttrRaises ==
    (variant = "partitioned_model" /\ pc # "idle" /\ DeadGetAttrs # {}) =>
        /\ pc \in {"init", "traverse", "error"}
        /\ DeadGetAttrs \cap Placed(partitions) = {}
        /\ pc = "error" => err = "ValueError"
        /\ (pc = "traverse" /\ queue = <<>>) => PendingGetAttrs # {}

\* the call failed after the traversal placed every other node and the loop
\* re-attached a get_attr node that has users
C35_Witness ==
    /\ variant = "partitioned_model"
    /\ pc = "error"
    /\ err = "ValueError"
    /\ DeadGetAttrs # {}
    /\ Placed(partitions) = Nodes \ DeadGetAttrs
    /\ \E n \in Placed(partitions) : graph[n].op = "get_attr"

\* names a subgraph takes that neither a sample nor any subgraph's output
\* supplies
Unproduced ==
    {name \in AllInputNames :
        /\ graph[name].op # "placeholder"
        /\ \A k \in DOMAIN subgraphs : name \notin subgraphs[k].output_names}

\* C36: partition_graph never ends in the `assert False` of its for-else:
\* every looked-up name is in the input_names of some subgraph, whether or not
\* any subgraph produces it, so a list of subgraphs is returned also when a
\* name is produced by none.
C36_AssertFalseUnreachable ==
    /\ err # "assert False"
    /\ SubgraphsBuilt =>
          \A name \in AllInputNames :
              \E k \in DOMAIN subgraphs : name \in subgraphs[k].consumed_names
    /\ (pc = "error" /\ err = "KeyError" /\ Unproduced # {}) => subgraphs # <<>>

\* partition_graph returned subgraphs of which one takes a name that no
\* subgraph produces
C36_Witness ==
    /\ pc = "built"
    /\ Unproduced # {}
    /\ \E name \in Unproduced : \E k \in DOMAIN subgraphs :
          name \in subgraphs[k].consumed_names

\* nodes reachable from n along users edges in at most k steps (n excluded
\* unless a cycle leads back to it)
RECURSIVE UsersWithin(_, _)
UsersWithin(S, k) ==
    IF k = 0 THEN {}
    ELSE LET next == UNION {graph[n].users : n \in S}
         IN  next \cup UsersWithin(next, k - 1)

OnCycle == {n \in Nodes : n \in UsersWithin({n}, MaxNodes)}

OnOrBehindCycle == OnCycle \cup UsersWithin(OnCycle, MaxNodes)

EnqueuedOnce ==
    /\ \A i, j \in DOMAIN dequeued : dequeued[i][1] = dequeued[j][1] => i = j
    /\ \A i, j \in DOMAIN queue : queue[i] = queue[j] => i = j
    /\ \A i \in DOMAIN queue : queue[i] \notin Dequeued
    /\ Len(dequeued) + Len(queue) <= Cardinality(Nodes)

\* C32: topological_partition takes at most one queue step per node, a node
\* being enqueued and dequeued at most once; on a graph with a cycle the nodes
\* on or behind the cycle are never dequeued and the call ends in the
\* AssertionError of the completeness assertion, never returning partitions
C32_TerminatesAndCycleFailsAssertion ==
    /\ EnqueuedOnce
    /\ OnCycle # {} =>
          /\ OnOrBehindCycle \cap Dequeued = {}
          /\ pc # "partitioned"
          /\ pc = "error" => err = "AssertionError"

\* forward or forward_data has returned
ExecutorReturned ==
    \/ mode = "forward" /\ pc = "built"
    \/ mode = "forward_data" /\ pc = "done"

\* C31: the intermediates cache is never the same mapping object as a sample
\* mapping of the caller, and once forward or forward_data has returned every
\* sample mapping of the caller holds exactly the entries it was handed with
C31_CacheNeverACallerSample ==
    /\ ~dataloader.shared
    /\ ExecutorReturned =>
          \A b \in DOMAIN dataloader.samples : dataloader.samples[b] = Batch(b)

\* the wrappers of modules without a weight quantization scheme
Schemeless == {m \in ModuleNames : wrappers[m].quant_args = "None"}

\* C38: GPTQWrapper.compress on a module without a weight quantization scheme
\* changes no field of the wrapper or its module and is followed by free: the
\* module is never quantized or replaced and goes from ACCUMULATING to FREED
C38_SchemelessModuleFreedUnquantized ==
    /\ [](lc_pc # "off" =>
            \A m \in Schemeless :
                /\ ~wrappers[m].quantizing
                /\ ~wrappers[m].replaced
                /\ \A i \in DOMAIN lifecycle[m] :
                      lifecycle[m][i] \notin {"compress", "replace"})
    /\ [][(lc_pc = "compress" /\ Head(to_compress) \in Schemeless) =>
             /\ wrappers' = wrappers
             /\ lifecycle' = lifecycle
             /\ to_compress' = to_compress
             /\ lc_pc' = "free"]_vars
    /\ [][(/\ lc_pc = "free"
           /\ Head(to_compress) \in Schemeless
           /\ StateOf(wrappers[Head(to_compress)]) = "ACCUMULATING") =>
             /\ StateOf(wrappers'[Head(to_compress)]) = "FREED"
             /\ lc_pc' # "error"]_vars

C38_Witness ==
    /\ lc_pc = "idle"
    /\ \E m \in Schemeless :
          /\ StateOf(wrappers[m]) = "FREED"
          /\ wrappers[m].nsamples > 0
          /\ lifecycle[m] = <<"wrap", "add_batch", "free">>

\* C37: once clear_early_stop has returned (no handle is stored until the next
\* set_early_stop) the layer carries no early-stop hook and its forward pass
\* does not raise EarlyStopException, whatever calls came before
C37_NoEarlyStopAfterClear ==
    (lc_pc # "off" /\ early_stop_handle = 0) =>
        /\ early_stop_hooks = {}
        /\ ~forward_pre_hook_raises

\* the quantized weights of the first k compress_module calls, each computed
\* from the module's original weight
QuantizedFromOriginal(k) == [i \in 1..k |-> QuantizedWeight(OriginalWeight, i)]

\* C33: with batch_size # -1 every compress_module call leaves module.weight
\* alone and adds its quantized weight to weight_acc, which after k calls is
\* the sum of k quantized weights of the original weight; finish_compression
\* then quantizes weight_acc / _num_batches, writes weight, scale and zero
\* point and deletes weight_acc.  With batch_size = -1 every call overwrites
\* the weight.  batch_size 0 or -2 accumulates with _num_batches = 1.
C33_CallsAccumulateQuantizedWeights ==
    (modifier # <<>> /\ quantized_module.has_scheme) =>
        /\ (modifier.pc \in {"calibration_forward", "remove_hooks", "error"}
            /\ modifier.calls > 0) =>
              IF modifier.batch_size # -1
              THEN /\ quantized_module.weight = OriginalWeight
                   /\ quantized_module.has_weight_acc
                   /\ quantized_module.weight_acc = QuantizedFromOriginal(modifier.calls)
              ELSE /\ quantized_module.weight.depth = modifier.calls
                   /\ ~quantized_module.has_weight_acc
        /\ (modifier.pc \in {"freeze", "done"} /\ modifier.batch_size # -1) =>
              /\ quantized_module.weight =
                    fake_quantize(Averaged(QuantizedFromOriginal(modifier.num_batches),
                                           modifier.num_batches))
              /\ quantized_module.qparams =
                    <<Averaged(QuantizedFromOriginal(modifier.num_batches),
                               modifier.num_batches)>>
              /\ ~quantized_module.has_weight_acc
        /\ (modifier.pc \notin {"init", "error"} /\ modifier.batch_size > 0) =>
              modifier.num_batches = Ceil(modifier.dataset, modifier.batch_size)
        /\ (modifier.pc \notin {"init", "error"} /\ modifier.batch_size \in {0, -2}) =>
              modifier.num_batches = 1
        /\ (modifier.pc = "calibration_forward" /\ modifier.batch_size \in {0, -2}) =>
              quantized_module.has_weight_acc

Order == <<"register_hooks", "calibration_forward", "remove_hooks",
           "finish_compression", "freeze">>

IsPrefix(s, t) == Len(s) <= Len(t) /\ \A i \in DOMAIN s : s[i] = t[i]

\* C34: on_initialize registers hooks, runs the calibration forward pass,
\* removes the hooks, finishes compression and freezes quantization, in this
\* order; without quantization it raises with no hook registered; when the
\* forward pass raises nothing after it runs and the hooks stay on the model
C34_InitializeOrder ==
    modifier # <<>> =>
        /\ IsPrefix(modifier.log, Order)
        /\ modifier.hooks =>
              (modifier.log # <<>> /\ Len(modifier.log) <= 2)
        /\ (~modifier.quantize /\ modifier.pc # "init") =>
              /\ modifier.pc = "error"
              /\ modifier.err = "ValueError"
              /\ modifier.log = <<>>
        /\ (modifier.pc = "error" /\ Len(modifier.log) >= 2) =>
              /\ modifier.log = <<"register_hooks", "calibration_forward">>
              /\ modifier.hooks
        /\ Len(modifier.log) > 2 =>
              /\ modifier.err = "none"
              /\ modifier.batches = modifier.num_batches
        /\ modifier.pc = "done" => (modifier.log = Order /\ quantized_module.frozen)

C34_Witness ==
    /\ modifier # <<>>
    /\ modifier.pc = "done"
    /\ modifier.log = Order
    /\ modifier.batches > 0
    /\ ~modifier.hooks

====
